---- MODULE Spec2Model ----
(***************************************************************************)
(* Component registry of shadcn-admin: the AgentAPI class, the             *)
(* ComponentRegistryIndex, and the MCP discovery / generation tool         *)
(* handlers that sit on top of them; the invoice analysis page with its    *)
(* upload / confirm mutations and status polling; and the chat hook        *)
(* useChat with the stream reader sendMessageStream.                       *)
(*                                                                         *)
(* Strings are sequences of one-character strings, so that toLowerCase,    *)
(* includes and the Levenshtein matrix are computed, not assumed.          *)
(* JavaScript null / undefined are the sentinels Null / Undefined.         *)
(* A result that is an array of component objects is a sequence of         *)
(* catalog positions: two records with equal fields are still two objects. *)
(***************************************************************************)
EXTENDS Integers, Sequences, FiniteSets, TLC

VARIABLES catalog, componentMap, nameIndex, categoryIndex, tagIndex, status, op, result

\* the state of the InvoiceAnalysis component, of its two mutations and two
\* queries, and the status of the job at the backend (invoiceResults and
\* invoiceError are the results and error states of the component)
VARIABLES currentStep, jobId, detection, invoiceResults, invoiceError, statusData,
          uploadMutation, confirmMutation, statusResponse, resultsResponse, backendStatus

\* the state of the useChat hook and the response streams being read
VARIABLES messages, isStreaming, currentStreamingMessageId, abortControllerRef, streams

registryVars == <<catalog, componentMap, nameIndex, categoryIndex, tagIndex, status>>
callVars == <<op, result>>
invoiceVars == <<currentStep, jobId, detection, invoiceResults, invoiceError, statusData,
                 uploadMutation, confirmMutation, statusResponse, resultsResponse, backendStatus>>
chatVars == <<messages, isStreaming, currentStreamingMessageId, abortControllerRef, streams>>
vars == <<catalog, componentMap, nameIndex, categoryIndex, tagIndex, status, op, result, invoiceVars, chatVars>>

Null == "<null>"
Undefined == "<undefined>"

\* useState / useRef initial values of InvoiceAnalysis and useChat: nothing
\* uploaded, no job, no message, no stream
InvoiceMounted ==
    /\ currentStep = "upload"
    /\ jobId = Null
    /\ detection = Null
    /\ invoiceResults = Null
    /\ invoiceError = Null
    /\ statusData = Null
    /\ uploadMutation = "idle"
    /\ confirmMutation = [state |-> "idle", jobId |-> Null]
    /\ statusResponse = Null
    /\ resultsResponse = Null
    /\ backendStatus = <<>>

ChatMounted ==
    /\ messages = <<>>
    /\ isStreaming = FALSE
    /\ currentStreamingMessageId = Null
    /\ abortControllerRef = Null
    /\ streams = <<>>

(***************************************************************************)
(* Bounds of the model: the longest catalog of each specification.         *)
(***************************************************************************)
MaxCatalog == 3
MaxDiscoverCatalog == 2
MaxSearchCatalog == 3
MaxLimit == 2
MaxSuggestCatalog == 6

(***************************************************************************)
(* String primitives.                                                      *)
(***************************************************************************)
UpperLetters == <<"A", "B", "C", "D", "E", "F", "G", "H", "I", "J", "K", "L", "M", "N", "O", "P", "Q", "R", "S", "T", "U", "V", "W", "X", "Y", "Z">>
LowerLetters == <<"a", "b", "c", "d", "e", "f", "g", "h", "i", "j", "k", "l", "m", "n", "o", "p", "q", "r", "s", "t", "u", "v", "w", "x", "y", "z">>

LowerChar(c) ==
    IF \E i \in 1..Len(UpperLetters) : UpperLetters[i] = c
    THEN LowerLetters[CHOOSE i \in 1..Len(UpperLetters) : UpperLetters[i] = c]
    ELSE c

UpperChar(c) ==
    IF \E i \in 1..Len(LowerLetters) : LowerLetters[i] = c
    THEN UpperLetters[CHOOSE i \in 1..Len(LowerLetters) : LowerLetters[i] = c]
    ELSE c

toLowerCase(s) == [i \in 1..Len(s) |-> LowerChar(s[i])]

\* String.prototype.includes: sub occurs in s as a contiguous run
includes(s, sub) ==
    \E k \in 0..(Len(s) - Len(sub)) : SubSeq(s, k + 1, k + Len(sub)) = sub

\* Array.prototype.includes on an array of strings
arrayIncludes(arr, x) == \E i \in 1..Len(arr) : arr[i] = x

\* Array.prototype.slice(0, n) for n >= 0
slice(arr, n) == SubSeq(arr, 1, IF n < Len(arr) THEN n ELSE Len(arr))

RECURSIVE filterIdx(_, _, _)
\* Array.prototype.filter: the positions i..Len(arr) of arr whose element is
\* in the set kept, in array order
filterIdx(arr, kept, i) ==
    IF i > Len(arr) THEN <<>>
    ELSE (IF arr[i] \in kept THEN <<arr[i]>> ELSE <<>>) \o filterIdx(arr, kept, i + 1)

\* every spelling of s that differs from it only in letter case
Casings(s) ==
    {t \in [1..Len(s) -> {LowerChar(s[i]) : i \in 1..Len(s)} \cup {UpperChar(s[i]) : i \in 1..Len(s)}] :
        \A i \in 1..Len(s) : t[i] \in {LowerChar(s[i]), UpperChar(s[i])}}

(***************************************************************************)
(* ComponentMetadata records.                                              *)
(***************************************************************************)
Categories == {"atom", "molecule", "organism", "template", "pattern"}
Complexities == {"simple", "moderate", "complex"}

ComponentMetadata(name, category, path, schema, documentation, tags, complexity, description, hasTesting, migrationStatus) ==
    [ name |-> name, category |-> category, path |-> path, schema |-> schema,
      documentation |-> documentation,
      internalDependencies |-> <<"cn">>, externalDependencies |-> <<>>, componentDependencies |-> <<>>,
      tags |-> tags, complexity |-> complexity, lastUpdated |-> "2024-11-17", version |-> <<"1", ".", "0", ".", "0">>,
      description |-> description, wcagLevel |-> "AA", hasTesting |-> hasTesting, hasStorybook |-> FALSE,
      migrationStatus |-> migrationStatus ]

\* all catalogs of at most n records drawn from the record set U
Catalogs(U, n) == UNION {[1..k -> U] : k \in 0..n}

(***************************************************************************)
(* JavaScript Map: a sequence of <<key, value>> entries in insertion       *)
(* order; set() on an existing key replaces the value in place.            *)
(***************************************************************************)
mapHas(m, k) == \E i \in 1..Len(m) : m[i][1] = k

\* Map.get, with d standing for the undefined of a missing key
mapGet(m, k, d) ==
    IF mapHas(m, k) THEN m[CHOOSE i \in 1..Len(m) : m[i][1] = k][2] ELSE d

mapSet(m, k, v) ==
    IF mapHas(m, k)
    THEN [i \in 1..Len(m) |-> IF m[i][1] = k THEN <<k, v>> ELSE m[i]]
    ELSE Append(m, <<k, v>>)

mapValues(m) == [i \in 1..Len(m) |-> m[i][2]]

\* an optional argument: None is an omitted (undefined) one
None == <<>>
Some(v) == <<v>>

\* the undefined returned by a lookup that finds no component
NoComponent == 0

(***************************************************************************)
(* AgentAPI: constructor and lookup.                                       *)
(***************************************************************************)
RECURSIVE AgentAPI_constructor(_, _, _)
\* components.forEach(c => componentMap.set(c.name.toLowerCase(), c))
AgentAPI_constructor(components, i, m) ==
    IF i > Len(components) THEN m
    ELSE AgentAPI_constructor(components, i + 1, mapSet(m, toLowerCase(components[i].name), i))

getComponent(name) == mapGet(componentMap, toLowerCase(name), NoComponent)

getAllComponents == [i \in 1..Len(catalog) |-> i]

(***************************************************************************)
(* ComponentRegistryIndex: buildIndices and the finders.                   *)
(***************************************************************************)
RECURSIVE indexTags(_, _, _, _)
\* for (const tag of component.tags) tagIndex.get(tag).push(component)
indexTags(tags, t, i, m) ==
    IF t > Len(tags) THEN m
    ELSE indexTags(tags, t + 1, i, mapSet(m, tags[t], Append(mapGet(m, tags[t], <<>>), i)))

RECURSIVE buildIndices(_, _, _)
\* idx is the triple <<nameIndex, categoryIndex, tagIndex>>
buildIndices(registry, i, idx) ==
    IF i > Len(registry) THEN idx
    ELSE LET c == registry[i]
         IN buildIndices(registry, i + 1,
              << mapSet(idx[1], toLowerCase(c.name), i),
                 mapSet(idx[2], c.category, Append(mapGet(idx[2], c.category, <<>>), i)),
                 indexTags(c.tags, 1, i, idx[3]) >>)

findByName(name) == mapGet(nameIndex, toLowerCase(name), NoComponent)

findByCategory(category) == mapGet(categoryIndex, category, <<>>)

findByTag(tag) == mapGet(tagIndex, tag, <<>>)

(***************************************************************************)
(* AgentAPI.discoverComponents.  A filter field is None when omitted.      *)
(***************************************************************************)
hasTag(c, tags) == \E t \in 1..Len(tags) : arrayIncludes(catalog[c].tags, tags[t])

schemaExists(c) == catalog[c].schema # Null /\ catalog[c].schema # "pending"

documentationExists(c) == catalog[c].documentation # Null /\ catalog[c].documentation # "pending"

filterByCategory(results, filters) ==
    IF filters.category # None /\ filters.category[1] # ""
    THEN filterIdx(results, {c \in 1..Len(catalog) : catalog[c].category = filters.category[1]}, 1)
    ELSE results

\* filterByTags with every() in place of some()
filterByTags_every(results, filters) ==
    IF filters.tags # None /\ Len(filters.tags[1]) > 0
    THEN filterIdx(results, {c \in 1..Len(catalog) :
                                \A t \in 1..Len(filters.tags[1]) : arrayIncludes(catalog[c].tags, filters.tags[1][t])}, 1)
    ELSE results

filterByTags(results, filters) ==
    IF filters.tags # None /\ Len(filters.tags[1]) > 0
    THEN filterIdx(results, {c \in 1..Len(catalog) : hasTag(c, filters.tags[1])}, 1)
    ELSE results

filterByComplexity(results, filters) ==
    IF filters.complexity # None /\ filters.complexity[1] # ""
    THEN filterIdx(results, {c \in 1..Len(catalog) : catalog[c].complexity = filters.complexity[1]}, 1)
    ELSE results

filterByMigrationStatus(results, filters) ==
    IF filters.migrationStatus # None /\ filters.migrationStatus[1] # ""
    THEN filterIdx(results, {c \in 1..Len(catalog) : catalog[c].migrationStatus = filters.migrationStatus[1]}, 1)
    ELSE results

\* filterBySchema that ignores the requested value and keeps records with a schema
filterBySchema_onlyTrue(results, filters) ==
    IF filters.hasSchema # None
    THEN filterIdx(results, {c \in 1..Len(catalog) : schemaExists(c)}, 1)
    ELSE results

filterBySchema(results, filters) ==
    IF filters.hasSchema # None
    THEN filterIdx(results, {c \in 1..Len(catalog) :
                                IF filters.hasSchema[1] THEN schemaExists(c) ELSE ~schemaExists(c)}, 1)
    ELSE results

filterByDocumentation(results, filters) ==
    IF filters.hasDocumentation # None
    THEN filterIdx(results, {c \in 1..Len(catalog) :
                                IF filters.hasDocumentation[1] THEN documentationExists(c)
                                ELSE ~documentationExists(c)}, 1)
    ELSE results

filterByTesting(results, filters) ==
    IF filters.hasTesting # None
    THEN filterIdx(results, {c \in 1..Len(catalog) : catalog[c].hasTesting = filters.hasTesting[1]}, 1)
    ELSE results

discoverComponents(optFilters) ==
    IF optFilters = None THEN getAllComponents
    ELSE LET filters == optFilters[1]
         IN filterByTesting(
              filterByDocumentation(
                filterBySchema(
                  filterByMigrationStatus(
                    filterByComplexity(
                      filterByTags(
                        filterByCategory(getAllComponents, filters),
                        filters), filters), filters), filters), filters), filters)

(***************************************************************************)
(* ComponentRegistryIndex.findByTags.  A JavaScript Set is a sequence      *)
(* without repetitions, in insertion order.                                *)
(***************************************************************************)
Range(arr) == {arr[i] : i \in 1..Len(arr)}

RECURSIVE newSet(_, _)
\* new Set(arr): the first occurrence of every element among arr[1..n]
newSet(arr, n) ==
    IF n = 0 THEN <<>>
    ELSE LET rest == newSet(arr, n - 1)
         IN IF arr[n] \in Range(rest) THEN rest ELSE Append(rest, arr[n])

findByTags(tags) ==
    IF Len(tags) = 0 THEN <<>>
    ELSE LET intersection == newSet(findByTag(tags[1]), Len(findByTag(tags[1])))
             remaining == {c \in Range(intersection) :
                              \A i \in 2..Len(tags) : c \in Range(findByTag(tags[i]))}
         IN filterIdx(intersection, remaining, 1)

(***************************************************************************)
(* MCP discovery tools: get_component and its suggestions.                 *)
(***************************************************************************)
Min3(x, y, z) == IF x <= y /\ x <= z THEN x ELSE IF y <= z THEN y ELSE z

RECURSIVE levRowCells_freeSubstitution(_, _, _, _, _)
\* the inner loop with a substitution that costs nothing
levRowCells_freeSubstitution(prev, a, bch, i, j) ==
    IF j = 0 THEN <<i>>
    ELSE LET left == levRowCells_freeSubstitution(prev, a, bch, i, j - 1)
         IN Append(left, IF bch = a[j] THEN prev[j]
                         ELSE Min3(prev[j], left[j] + 1, prev[j + 1] + 1))

RECURSIVE levRowCells(_, _, _, _, _)
\* cells 0..j of matrix[i], given prev = matrix[i-1] and bch = b.charAt(i-1)
levRowCells(prev, a, bch, i, j) ==
    IF j = 0 THEN <<i>>
    ELSE LET left == levRowCells(prev, a, bch, i, j - 1)
         IN Append(left, IF bch = a[j] THEN prev[j]
                         ELSE Min3(prev[j] + 1, left[j] + 1, prev[j + 1] + 1))

RECURSIVE levMatrixRow(_, _, _)
\* matrix[i] of the (b.length + 1) x (a.length + 1) matrix
levMatrixRow(a, b, i) ==
    IF i = 0 THEN [j \in 1..(Len(a) + 1) |-> j - 1]
    ELSE levRowCells(levMatrixRow(a, b, i - 1), a, b[i], i, Len(a))

levenshteinDistance(a, b) == levMatrixRow(a, b, Len(b))[Len(a) + 1]

suggestionMatch(cName, lowerName) ==
    \/ includes(cName, lowerName)
    \/ includes(lowerName, cName)
    \/ levenshteinDistance(cName, lowerName) <= 3

getSuggestions(name) ==
    LET lowerName == toLowerCase(name)
        matching == {i \in 1..Len(catalog) : suggestionMatch(toLowerCase(catalog[i].name), lowerName)}
        kept == slice(filterIdx(getAllComponents, matching, 1), 5)
    IN [k \in 1..Len(kept) |-> catalog[kept[k]].name]

\* JavaScript truthiness of a string-or-null value
truthy(v) == v \notin {Null, Undefined, ""}

formatComponentDetail(component) ==
    [ name |-> component.name, category |-> component.category, path |-> component.path,
      description |-> component.description, tags |-> component.tags,
      complexity |-> component.complexity, version |-> component.version,
      lastUpdated |-> component.lastUpdated, wcagLevel |-> component.wcagLevel,
      dependencies |-> [ internal |-> component.internalDependencies,
                         external |-> component.externalDependencies,
                         components |-> component.componentDependencies ],
      schema |-> IF truthy(component.schema) THEN component.schema ELSE Null,
      documentation |-> IF truthy(component.documentation) THEN component.documentation ELSE Null,
      hasTesting |-> component.hasTesting, hasStorybook |-> component.hasStorybook,
      migrationStatus |-> IF truthy(component.migrationStatus) THEN component.migrationStatus ELSE "pending" ]

tool_getComponent(input) ==
    LET component == getComponent(input.name)
    IN IF component = NoComponent
       THEN [ error |-> "COMPONENT_NOT_FOUND", message |-> <<"not found in registry", input.name>>,
              suggestions |-> getSuggestions(input.name) ]
       ELSE formatComponentDetail(catalog[component])

(***************************************************************************)
(* Schema and documentation loading: AgentAPI and the MCP tools.           *)
(* importOk is whether the dynamic import of the schema file succeeds.     *)
(***************************************************************************)
\* AgentAPI.loadSchema without the comparison with the 'pending' sentinel
AgentAPI_loadSchema_noPending(componentName, importOk) ==
    LET component == getComponent(componentName)
    IN IF component = NoComponent
       THEN [ threw |-> TRUE, value |-> None ]
       ELSE IF ~truthy(catalog[component].schema)
       THEN [ threw |-> FALSE, value |-> None ]
       ELSE IF importOk
       THEN [ threw |-> FALSE, value |-> Some([ file |-> catalog[component].schema ]) ]
       ELSE [ threw |-> FALSE, value |-> None ]

AgentAPI_loadSchema(componentName, importOk) ==
    LET component == getComponent(componentName)
    IN IF component = NoComponent
       THEN [ threw |-> TRUE, value |-> None ]
       ELSE IF ~truthy(catalog[component].schema) \/ catalog[component].schema = "pending"
       THEN [ threw |-> FALSE, value |-> None ]
       ELSE IF importOk
       THEN [ threw |-> FALSE, value |-> Some([ file |-> catalog[component].schema ]) ]
       ELSE [ threw |-> FALSE, value |-> None ]

AgentAPI_loadDocumentation(componentName) ==
    LET component == getComponent(componentName)
    IN IF component = NoComponent
       THEN [ threw |-> TRUE, value |-> None ]
       ELSE IF ~truthy(catalog[component].documentation) \/ catalog[component].documentation = "pending"
       THEN [ threw |-> FALSE, value |-> None ]
       ELSE [ threw |-> FALSE, value |-> Some(<<"See documentation at: ", catalog[component].documentation>>) ]

tool_loadSchema(input, importOk) ==
    LET component == getComponent(input.name)
        schema == AgentAPI_loadSchema(input.name, importOk)
    IN IF component = NoComponent
       THEN [ error |-> "COMPONENT_NOT_FOUND", message |-> <<"not found in registry", input.name>> ]
       ELSE IF schema.threw
       THEN [ error |-> "<exception>", message |-> <<"not found", input.name>> ]
       ELSE IF schema.value = None
       THEN [ error |-> "SCHEMA_NOT_AVAILABLE", message |-> <<"No schema available", input.name>>,
              component |-> catalog[component].name, hasSchema |-> FALSE ]
       ELSE [ componentName |-> catalog[component].name,
              category |-> catalog[component].category, schema |-> schema.value[1] ]

tool_loadDocumentation(input) ==
    LET component == getComponent(input.name)
        documentation == AgentAPI_loadDocumentation(input.name)
    IN IF component = NoComponent
       THEN [ error |-> "COMPONENT_NOT_FOUND", message |-> <<"not found in registry", input.name>> ]
       ELSE IF documentation.threw
       THEN [ error |-> "<exception>", message |-> <<"not found", input.name>> ]
       ELSE IF documentation.value = None
       THEN [ error |-> "DOCUMENTATION_NOT_AVAILABLE", message |-> <<"No documentation available", input.name>>,
              component |-> catalog[component].name, hasDocumentation |-> FALSE ]
       ELSE [ componentName |-> catalog[component].name,
              documentation |-> documentation.value[1], path |-> catalog[component].documentation ]

(***************************************************************************)
(* Keyword search: AgentAPI.searchComponents, ComponentRegistryIndex.search *)
(* and the search_components tool.                                         *)
(***************************************************************************)
someTagIncludes(c, lowerQuery) ==
    \E t \in 1..Len(catalog[c].tags) : includes(toLowerCase(catalog[c].tags[t]), lowerQuery)

keywordMatch(c, lowerQuery) ==
    \/ includes(toLowerCase(catalog[c].name), lowerQuery)
    \/ includes(toLowerCase(catalog[c].description), lowerQuery)
    \/ someTagIncludes(c, lowerQuery)

AgentAPI_searchComponents(query) ==
    filterIdx(getAllComponents, {c \in 1..Len(catalog) : keywordMatch(c, toLowerCase(query))}, 1)

\* Array.from(this.nameIndex.values()).filter(...)
Index_search(keyword) ==
    filterIdx(mapValues(nameIndex), {c \in 1..Len(catalog) : keywordMatch(c, toLowerCase(keyword))}, 1)

\* formatSearchResult that tests the tags before the name
formatSearchResult_tagFirst(c, query) ==
    [ name |-> catalog[c].name, description |-> catalog[c].description,
      relevance |-> IF someTagIncludes(c, toLowerCase(query)) THEN "tag"
                    ELSE IF includes(toLowerCase(catalog[c].name), toLowerCase(query)) THEN "name"
                    ELSE "description",
      category |-> catalog[c].category ]

formatSearchResult(c, query) ==
    [ name |-> catalog[c].name, description |-> catalog[c].description,
      relevance |-> IF includes(toLowerCase(catalog[c].name), toLowerCase(query)) THEN "name"
                    ELSE IF someTagIncludes(c, toLowerCase(query)) THEN "tag"
                    ELSE "description",
      category |-> catalog[c].category ]

\* input.limit || d : an omitted limit and the limit 0 both give d
limitOr(limit, d) == IF limit = None \/ limit[1] = 0 THEN d ELSE limit[1]

\* the limits a caller passes: omitted, 0, and the small positive ones
Limits == {None} \cup {Some(n) : n \in 0..MaxLimit}

tool_searchComponents(input) ==
    LET components == AgentAPI_searchComponents(input.query)
        limited == slice(components, limitOr(input.limit, 10))
    IN [ query |-> input.query, count |-> Len(limited),
         results |-> [k \in 1..Len(limited) |-> formatSearchResult(limited[k], input.query)] ]

\* the tool called through the MCP server, which parses the arguments with
\* searchComponentsSchema (query: min(1), limit: default(10)) first
mcp_searchComponents(args) ==
    IF Len(args.query) < 1
    THEN [ error |-> "INVALID_PARAMS", message |-> "String must contain at least 1 character(s)" ]
    ELSE tool_searchComponents([ query |-> args.query,
                                 limit |-> IF args.limit = None THEN Some(10) ELSE args.limit ])

(***************************************************************************)
(* The discover_components tool, its summary formatter, and                *)
(* AgentAPI.getComponentHealth.                                            *)
(***************************************************************************)
formatComponentSummary(component) ==
    [ name |-> component.name, category |-> component.category,
      description |-> component.description, tags |-> component.tags,
      complexity |-> component.complexity,
      hasSchema |-> truthy(component.schema),
      hasDocumentation |-> truthy(component.documentation),
      path |-> component.path, wcagLevel |-> component.wcagLevel ]

tool_discoverComponents(input) ==
    LET filters == [ category |-> input.category, tags |-> input.tags,
                     complexity |-> input.complexity, migrationStatus |-> None,
                     hasSchema |-> input.hasSchema, hasDocumentation |-> input.hasDocumentation,
                     hasTesting |-> None ]
        components == discoverComponents(Some(filters))
        limited == slice(components, limitOr(input.limit, 20))
    IN [ count |-> Len(limited), totalMatches |-> Len(components),
         components |-> [k \in 1..Len(limited) |-> formatComponentSummary(catalog[limited[k]])] ]

healthIssues(component) ==
    (IF ~truthy(component.schema) \/ component.schema = "pending"
     THEN <<"Missing component schema">> ELSE <<>>)
    \o (IF ~truthy(component.documentation) \/ component.documentation = "pending"
        THEN <<"Missing documentation">> ELSE <<>>)
    \o (IF ~component.hasTesting THEN <<"No unit tests">> ELSE <<>>)
    \o (IF ~component.hasStorybook THEN <<"No Storybook stories">> ELSE <<>>)

getComponentHealth(componentName) ==
    LET c == getComponent(componentName)
    IN IF c = NoComponent THEN Null
       ELSE LET component == catalog[c]
                issues == healthIssues(component)
            IN [ name |-> component.name,
                 status |-> IF Len(issues) > 3 THEN "error"
                            ELSE IF Len(issues) > 0 THEN "warning" ELSE "healthy",
                 hasTests |-> component.hasTesting, hasStorybook |-> component.hasStorybook,
                 hasSchema |-> truthy(component.schema) /\ component.schema # "pending",
                 hasDocumentation |-> truthy(component.documentation) /\ component.documentation # "pending",
                 importCount |-> 0, lastUpdated |-> component.lastUpdated, coverage |-> 0,
                 issues |-> issues,
                 migrationStatus |-> IF truthy(component.migrationStatus)
                                     THEN component.migrationStatus ELSE "pending" ]

(***************************************************************************)
(* validators: validateComponentMetadata and generateValidationReport.     *)
(***************************************************************************)
Digits == {"0", "1", "2", "3", "4", "5", "6", "7", "8", "9"}

\* /^\d+\.\d+\.\d+$/.test(version)
isSemver(version) ==
    \E i, j \in 1..Len(version) :
        /\ 1 < i /\ i + 1 < j /\ j < Len(version)
        /\ version[i] = "." /\ version[j] = "."
        /\ \A k \in (1..Len(version)) \ {i, j} : version[k] \in Digits

validCategories == <<"atom", "molecule", "organism", "template", "pattern">>
validComplexities == <<"simple", "moderate", "complex">>
validWCAG == <<"A", "AA", "AAA">>

validateComponentMetadata(metadata) ==
    LET errors ==
            (IF Len(metadata.name) = 0 THEN <<[path |-> "name", error |-> "required"]>> ELSE <<>>)
            \o (IF ~truthy(metadata.category) THEN <<[path |-> "category", error |-> "required"]>> ELSE <<>>)
            \o (IF Len(metadata.path) = 0 THEN <<[path |-> "path", error |-> "required"]>> ELSE <<>>)
            \o (IF Len(metadata.description) = 0 THEN <<[path |-> "description", error |-> "required"]>> ELSE <<>>)
            \o (IF truthy(metadata.category) /\ ~arrayIncludes(validCategories, metadata.category)
                THEN <<[path |-> "category", error |-> "invalid"]>> ELSE <<>>)
            \o (IF truthy(metadata.complexity) /\ ~arrayIncludes(validComplexities, metadata.complexity)
                THEN <<[path |-> "complexity", error |-> "invalid"]>> ELSE <<>>)
            \o (IF truthy(metadata.wcagLevel) /\ ~arrayIncludes(validWCAG, metadata.wcagLevel)
                THEN <<[path |-> "wcagLevel", error |-> "invalid"]>> ELSE <<>>)
            \o (IF Len(metadata.version) > 0 /\ ~isSemver(metadata.version)
                THEN <<[path |-> "version", error |-> "invalid"]>> ELSE <<>>)
            \o (IF Len(metadata.tags) = 0 THEN <<[path |-> "tags", error |-> "required"]>> ELSE <<>>)
    IN [ valid |-> Len(errors) = 0, errors |-> errors ]

\* issues is a sequence of <<component.name, result.errors>> entries
generateValidationReport(components) ==
    LET invalidOnes == {i \in 1..Len(components) : ~validateComponentMetadata(components[i]).valid}
        listed == filterIdx([i \in 1..Len(components) |-> i], invalidOnes, 1)
    IN [ total |-> Len(components),
         valid |-> Len(components) - Cardinality(invalidOnes),
         invalid |-> Cardinality(invalidOnes),
         issues |-> [k \in 1..Len(listed) |->
                        <<components[listed[k]].name, validateComponentMetadata(components[listed[k]]).errors>>] ]

(***************************************************************************)
(* validators: validatePropsAgainstSchema, and AgentAPI.validateProps.     *)
(* A JavaScript value is a record [type, v] with type its typeof; a plain  *)
(* object is the Map of its own properties in insertion order, and         *)
(* inherits the properties of Object.prototype.                            *)
(***************************************************************************)
ObjectPrototypeNames ==
    {"constructor", "toString", "valueOf", "hasOwnProperty", "isPrototypeOf",
     "propertyIsEnumerable", "toLocaleString", "__proto__"}

\* an inherited member read as a prop definition: its type, values and
\* required are all undefined
inheritedMember == [type |-> Undefined, values |-> None, required |-> FALSE]

\* obj[key]: the own property, else the inherited one, else undefined (None)
objGet(obj, key) ==
    IF mapHas(obj, key) THEN Some(mapGet(obj, key, Undefined))
    ELSE IF key \in ObjectPrototypeNames THEN Some(inheritedMember)
    ELSE None

\* key in obj
objIn(key, obj) == mapHas(obj, key) \/ key \in ObjectPrototypeNames

\* propDef.values.includes(propValue)
valuesInclude(values, propValue) ==
    \E i \in 1..Len(values) : values[i].type = propValue.type /\ values[i].v = propValue.v

\* propErrors without the typeof test of a declared number
propErrors_numberUnchecked(propName, propValue, propDef) ==
    (IF propDef.type = "enum" /\ propDef.values # None /\ ~valuesInclude(propDef.values[1], propValue)
     THEN <<[prop |-> propName, value |-> propValue, error |-> "Invalid value for prop",
             expected |-> propDef.values[1]]>>
     ELSE <<>>)
    \o (IF propDef.type = "boolean" /\ propValue.type # "boolean"
        THEN <<[prop |-> propName, value |-> propValue, error |-> "must be a boolean",
                expected |-> <<"true", "false">>]>>
        ELSE <<>>)
    \o (IF propDef.type = "string" /\ propValue.type # "string"
        THEN <<[prop |-> propName, value |-> propValue, error |-> "must be a string"]>>
        ELSE <<>>)

\* the errors pushed for one supplied prop that has a definition
propErrors(propName, propValue, propDef) ==
    (IF propDef.type = "enum" /\ propDef.values # None /\ ~valuesInclude(propDef.values[1], propValue)
     THEN <<[prop |-> propName, value |-> propValue, error |-> "Invalid value for prop",
             expected |-> propDef.values[1]]>>
     ELSE <<>>)
    \o (IF propDef.type = "boolean" /\ propValue.type # "boolean"
        THEN <<[prop |-> propName, value |-> propValue, error |-> "must be a boolean",
                expected |-> <<"true", "false">>]>>
        ELSE <<>>)
    \o (IF propDef.type = "number" /\ propValue.type # "number"
        THEN <<[prop |-> propName, value |-> propValue, error |-> "must be a number"]>>
        ELSE <<>>)
    \o (IF propDef.type = "string" /\ propValue.type # "string"
        THEN <<[prop |-> propName, value |-> propValue, error |-> "must be a string"]>>
        ELSE <<>>)

RECURSIVE checkProvidedProps(_, _, _)
\* for (const [propName, propValue] of Object.entries(props)), from entry i
checkProvidedProps(schemaPropDefinitions, props, i) ==
    IF i > Len(props) THEN [errors |-> <<>>, warnings |-> <<>>]
    ELSE LET propName == props[i][1]
             propValue == props[i][2]
             propDef == objGet(schemaPropDefinitions, propName)
             rest == checkProvidedProps(schemaPropDefinitions, props, i + 1)
         IN IF propDef = None
            THEN [ errors |-> rest.errors,
                   warnings |-> <<[prop |-> propName, value |-> propValue,
                                   error |-> "Prop not defined in schema"]>> \o rest.warnings ]
            ELSE [ errors |-> propErrors(propName, propValue, propDef[1]) \o rest.errors,
                   warnings |-> rest.warnings ]

RECURSIVE checkRequiredProps(_, _, _)
\* for (const [propName, propDef] of Object.entries(schemaPropDefinitions)), from entry i
checkRequiredProps(schemaPropDefinitions, props, i) ==
    IF i > Len(schemaPropDefinitions) THEN <<>>
    ELSE (IF schemaPropDefinitions[i][2].required /\ ~objIn(schemaPropDefinitions[i][1], props)
          THEN <<[prop |-> schemaPropDefinitions[i][1], value |-> Undefined,
                  error |-> "Required prop is missing"]>>
          ELSE <<>>)
         \o checkRequiredProps(schemaPropDefinitions, props, i + 1)

\* schema is None for null / undefined, else Some of an object whose props
\* is None or Some of the object of prop definitions
validatePropsAgainstSchema(schema, props) ==
    IF schema = None \/ schema[1].props = None
    THEN [valid |-> TRUE, errors |-> <<>>, warnings |-> <<>>]
    ELSE LET schemaPropDefinitions == schema[1].props[1]
             provided == checkProvidedProps(schemaPropDefinitions, props, 1)
             errors == provided.errors \o checkRequiredProps(schemaPropDefinitions, props, 1)
         IN [valid |-> Len(errors) = 0, errors |-> errors, warnings |-> provided.warnings]

\* required is the outcome of require('.../Button.schema.json'): None when
\* it throws, else Some of the schema it returns
AgentAPI_validateProps(componentName, props, required) ==
    LET c == getComponent(componentName)
    IN IF c = NoComponent
       THEN [valid |-> FALSE,
             errors |-> <<[field |-> "component", value |-> componentName,
                           error |-> "Component not found in registry"]>>]
       ELSE IF ~truthy(catalog[c].schema) \/ catalog[c].schema = "pending"
       THEN [valid |-> TRUE, errors |-> <<>>]
       ELSE IF catalog[c].name = <<"B", "u", "t", "t", "o", "n">> /\ required # None
       THEN validatePropsAgainstSchema(required[1], props)
       ELSE [valid |-> TRUE, errors |-> <<>>]

(***************************************************************************)
(* validators: validateDesignTokens.  The two global regular expressions   *)
(* are matched as RegExp.prototype.exec matches them: leftmost, greedy,    *)
(* the next search starting where the last match ended.                    *)
(***************************************************************************)
\* the literal strings of the two patterns
BG == <<"b", "g">>
TEXT == <<"t", "e", "x", "t">>
BORDER == <<"b", "o", "r", "d", "e", "r">>
INHERIT == <<"i", "n", "h", "e", "r", "i", "t">>
CURRENT == <<"c", "u", "r", "r", "e", "n", "t">>
TRANSPARENT == <<"t", "r", "a", "n", "s", "p", "a", "r", "e", "n", "t">>

\* \w
WordChars == Range(UpperLetters) \cup Range(LowerLetters) \cup Digits \cup {"_"}

\* s has p at position i
startsWithAt(s, i, p) == i + Len(p) - 1 <= Len(s) /\ SubSeq(s, i, i + Len(p) - 1) = p

RECURSIVE runEnd(_, _, _)
\* the last position of the longest run of characters of class from i (i - 1 for none)
runEnd(s, i, class) ==
    IF i <= Len(s) /\ s[i] \in class THEN runEnd(s, i + 1, class) ELSE i - 1

RECURSIVE runEndNot(_, _, _)
\* the same for the characters other than c
runEndNot(s, i, c) ==
    IF i <= Len(s) /\ s[i] # c THEN runEndNot(s, i + 1, c) ELSE i - 1

\* (bg|text|border) with the alternatives tried in this order
colorPrefixes_bgOnly == <<BG>>

colorPrefixes == <<BG, TEXT, BORDER>>

\* the positions k at which (\w+) may end for the prefix ending before w0:
\* a '-' and at least one digit follow
wordEnds(s, w0) ==
    {k \in w0..runEnd(s, w0, WordChars) :
        k + 2 <= Len(s) /\ s[k + 1] = "-" /\ s[k + 2] \in Digits}

\* /(bg|text|border)-(\w+-\d+)/ matched at position i: None, or Some of
\* [last |-> the last position of match[0], group2 |-> match[2]]
colorMatchAt(s, i) ==
    LET fits == {n \in 1..Len(colorPrefixes) :
                    /\ startsWithAt(s, i, colorPrefixes[n] \o <<"-">>)
                    /\ wordEnds(s, i + Len(colorPrefixes[n]) + 1) # {}}
    IN IF fits = {} THEN None
       ELSE LET n == CHOOSE m \in fits : \A o \in fits : m <= o
                w0 == i + Len(colorPrefixes[n]) + 1
                k == CHOOSE e \in wordEnds(s, w0) : \A o \in wordEnds(s, w0) : o <= e
                last == runEnd(s, k + 2, Digits)
            IN Some([last |-> last, group2 |-> SubSeq(s, w0, last)])

\* /\[([^\]]+)\]/ matched at position i: 0, or the last position of match[0]
arbitraryMatchAt(s, i) ==
    IF i <= Len(s) /\ s[i] = "["
       /\ runEndNot(s, i + 1, "]") >= i + 1 /\ runEndNot(s, i + 1, "]") + 1 <= Len(s)
    THEN runEndNot(s, i + 1, "]") + 1
    ELSE 0

excludedColorWords == {INHERIT, CURRENT, TRANSPARENT}

RECURSIVE colorLoop(_, _)
\* while ((match = colorRegex.exec(className)) !== null), with lastIndex = from - 1
colorLoop(className, from) ==
    LET starts == {i \in from..Len(className) : colorMatchAt(className, i) # None}
    IN IF starts = {} THEN <<>>
       ELSE LET index == CHOOSE i \in starts : \A o \in starts : i <= o
                match == colorMatchAt(className, index)[1]
            IN (IF match.group2 \notin excludedColorWords
                THEN <<SubSeq(className, index, match.last)>> ELSE <<>>)
               \o colorLoop(className, match.last + 1)

RECURSIVE arbitraryLoop(_, _)
\* while ((match = arbitraryRegex.exec(className)) !== null), with lastIndex = from - 1
arbitraryLoop(className, from) ==
    LET starts == {i \in from..Len(className) : arbitraryMatchAt(className, i) # 0}
    IN IF starts = {} THEN <<>>
       ELSE LET index == CHOOSE i \in starts : \A o \in starts : i <= o
            IN <<SubSeq(className, index, arbitraryMatchAt(className, index))>>
               \o arbitraryLoop(className, arbitraryMatchAt(className, index) + 1)

validateDesignTokens(className) ==
    LET colors == colorLoop(className, 1)
        arbitrary == arbitraryLoop(className, 1)
        hardCodedValues == colors \o arbitrary
    IN [ valid |-> Len(hardCodedValues) = 0,
         hardCodedValues |-> hardCodedValues,
         warnings |-> [k \in 1..Len(colors) |-> <<"Hard-coded color found", colors[k]>>]
                      \o [k \in 1..Len(arbitrary) |-> <<"Arbitrary value found", arbitrary[k]>>] ]

(***************************************************************************)
(* Code generators: AgentAPI.generateImport / generateUsage and the        *)
(* generate_import tool with its getImportPath helper.                     *)
(***************************************************************************)
SRC_SLASH == <<"s", "r", "c", "/">>
AT_SLASH == <<"@", "/">>
DOT_TSX == <<".", "t", "s", "x">>
DOT_TS == <<".", "t", "s">>

\* the positions at which pattern occurs in s
occurrences(s, pattern) ==
    {k \in 1..(Len(s) - Len(pattern) + 1) : SubSeq(s, k, k + Len(pattern) - 1) = pattern}

\* String.prototype.replace(pattern, replacement) with a string pattern:
\* the first occurrence only
replaceFirst(s, pattern, replacement) ==
    IF occurrences(s, pattern) = {} THEN s
    ELSE LET k == CHOOSE i \in occurrences(s, pattern) : \A o \in occurrences(s, pattern) : i <= o
         IN SubSeq(s, 1, k - 1) \o replacement \o SubSeq(s, k + Len(pattern), Len(s))

\* replace(/^src\//, '@/')
replaceLeadingSrc(filePath) ==
    IF startsWithAt(filePath, 1, SRC_SLASH)
    THEN AT_SLASH \o SubSeq(filePath, Len(SRC_SLASH) + 1, Len(filePath))
    ELSE filePath

endsWith(s, suffix) ==
    Len(suffix) <= Len(s) /\ SubSeq(s, Len(s) - Len(suffix) + 1, Len(s)) = suffix

\* replace(/\.tsx?$/, '')
stripExtension(filePath) ==
    IF endsWith(filePath, DOT_TSX) THEN SubSeq(filePath, 1, Len(filePath) - Len(DOT_TSX))
    ELSE IF endsWith(filePath, DOT_TS) THEN SubSeq(filePath, 1, Len(filePath) - Len(DOT_TS))
    ELSE filePath

getImportPath(filePath) == stripExtension(replaceLeadingSrc(filePath))

\* `import { ${name} } from '${importPath}'`
importLine(keyword, name, importPath) ==
    keyword \o <<" ", "{", " ">> \o name \o <<" ", "}", " ", "f", "r", "o", "m", " ", "'">> \o importPath \o <<"'">>

IMPORT == <<"i", "m", "p", "o", "r", "t">>
IMPORT_TYPE == <<"i", "m", "p", "o", "r", "t", " ", "t", "y", "p", "e">>
PROPS == <<"P", "r", "o", "p", "s">>

\* a thrown Error
Thrown(message) == [threw |-> TRUE, message |-> message]

AgentAPI_generateImport(componentName) ==
    LET c == getComponent(componentName)
    IN IF c = NoComponent THEN Thrown(<<"not found", componentName>>)
       ELSE LET importPath ==
                    replaceFirst(replaceFirst(replaceFirst(catalog[c].path, SRC_SLASH, AT_SLASH),
                                              DOT_TSX, <<>>), DOT_TS, <<>>)
            IN importLine(IMPORT, catalog[c].name, importPath)

\* the handler without the lookup that guards agentAPI.generateImport
tool_generateImport_unguarded(input) ==
    LET c == getComponent(input.name)
    IN IF c = NoComponent
       THEN AgentAPI_generateImport(input.name)
       ELSE [ import |-> AgentAPI_generateImport(input.name),
              typeImport |-> IF input.includeTypes = Some(TRUE)
                             THEN Some(importLine(IMPORT_TYPE, catalog[c].name \o PROPS,
                                                  getImportPath(catalog[c].path)))
                             ELSE None,
              path |-> getImportPath(catalog[c].path) ]

\* input.includeTypes is None when omitted
tool_generateImport(input) ==
    LET c == getComponent(input.name)
    IN IF c = NoComponent
       THEN [ error |-> "COMPONENT_NOT_FOUND", message |-> <<"not found in registry", input.name>> ]
       ELSE [ import |-> AgentAPI_generateImport(input.name),
              typeImport |-> IF input.includeTypes = Some(TRUE)
                             THEN Some(importLine(IMPORT_TYPE, catalog[c].name \o PROPS,
                                                  getImportPath(catalog[c].path)))
                             ELSE None,
              path |-> getImportPath(catalog[c].path) ]

\* Number.prototype.toString for a natural number
DigitChars == <<"0", "1", "2", "3", "4", "5", "6", "7", "8", "9">>

RECURSIVE naturalText(_)
naturalText(n) ==
    IF n < 10 THEN <<DigitChars[n + 1]>>
    ELSE naturalText(n \div 10) \o <<DigitChars[(n % 10) + 1]>>

numberText(n) == IF n < 0 THEN <<"-">> \o naturalText(0 - n) ELSE naturalText(n)

RECURSIVE joinWith(_, _)
\* Array.prototype.join(separator)
joinWith(parts, separator) ==
    IF Len(parts) = 0 THEN <<>>
    ELSE IF Len(parts) = 1 THEN parts[1]
    ELSE parts[1] \o separator \o joinWith(Tail(parts), separator)

\* JSON.stringify of a number or of an array of numbers
JSON_stringify(value) ==
    IF value.type = "number" THEN numberText(value.num)
    ELSE <<"[">> \o joinWith([k \in 1..Len(value.items) |-> numberText(value.items[k])], <<",">>) \o <<"]">>

\* the map callback without the boolean case
usageAttribute_noBooleanCase(key, value) ==
    IF value.type = "string" THEN key \o <<"=", "\"">> \o value.text \o <<"\"">>
    ELSE IF value.type = "boolean" THEN key \o <<"=", "{">> \o (IF value.flag THEN <<"t", "r", "u", "e">> ELSE <<"f", "a", "l", "s", "e">>) \o <<"}">>
    ELSE key \o <<"=", "{">> \o JSON_stringify(value) \o <<"}">>

\* the map callback of generateUsage: the text of one property
usageAttribute(key, value) ==
    IF value.type = "string" THEN key \o <<"=", "\"">> \o value.text \o <<"\"">>
    ELSE IF value.type = "boolean" THEN (IF value.flag THEN key ELSE <<>>)
    ELSE key \o <<"=", "{">> \o JSON_stringify(value) \o <<"}">>

RECURSIVE filterBoolean(_)
\* .filter(Boolean) on an array of strings: the empty strings are dropped
filterBoolean(parts) ==
    IF Len(parts) = 0 THEN <<>>
    ELSE (IF Len(parts[1]) > 0 THEN <<parts[1]>> ELSE <<>>) \o filterBoolean(Tail(parts))

AgentAPI_generateUsage(componentName, props) ==
    LET c == getComponent(componentName)
    IN IF c = NoComponent THEN Thrown(<<"not found", componentName>>)
       ELSE LET propsString ==
                    joinWith(filterBoolean([i \in 1..Len(props) |-> usageAttribute(props[i][1], props[i][2])]),
                             <<" ">>)
            IN IF Len(propsString) > 0
               THEN <<"<">> \o catalog[c].name \o <<" ">> \o propsString \o <<" ", "/", ">">>
               ELSE <<"<">> \o catalog[c].name \o <<" ", "/", ">">>

(***************************************************************************)
(* generate_usage tool: the usage text of AgentAPI.generateUsage with the  *)
(* children text put in place of the first '/>'.                           *)
(***************************************************************************)
SELF_CLOSE == <<"/", ">">>
NEWLINES == <<"\n", "\n">>

RECURSIVE expandReplacement(_, _, _)
\* GetSubstitution for a string pattern: in the replacement text $$ is a
\* dollar sign, $& the matched text and $' the text after the match; any
\* other character stands for itself (the grave accent, which names the
\* text before the match, is not a character of the texts modelled here)
expandReplacement(replacement, matched, after) ==
    IF Len(replacement) = 0 THEN <<>>
    ELSE IF replacement[1] = "$" /\ Len(replacement) >= 2 /\ replacement[2] \in {"$", "&", "'"}
         THEN (CASE replacement[2] = "$" -> <<"$">>
                 [] replacement[2] = "&" -> matched
                 [] OTHER -> after)
              \o expandReplacement(SubSeq(replacement, 3, Len(replacement)), matched, after)
         ELSE <<replacement[1]>> \o expandReplacement(Tail(replacement), matched, after)

\* String.prototype.replace(pattern, replacement) with a string pattern and
\* a replacement text given by the caller
replaceFirstExpanding(s, pattern, replacement) ==
    IF occurrences(s, pattern) = {} THEN s
    ELSE LET k == CHOOSE i \in occurrences(s, pattern) : \A o \in occurrences(s, pattern) : i <= o
             before == SubSeq(s, 1, k - 1)
             after == SubSeq(s, k + Len(pattern), Len(s))
         IN before \o expandReplacement(replacement, pattern, after) \o after

\* input.props and input.children are None when omitted
tool_generateUsage(input) ==
    LET c == getComponent(input.name)
    IN IF c = NoComponent
       THEN [ error |-> "COMPONENT_NOT_FOUND", message |-> <<"not found in registry", input.name>> ]
       ELSE LET props == IF input.props = None THEN <<>> ELSE input.props[1]
                usage == AgentAPI_generateUsage(input.name, props)
                importStatement == AgentAPI_generateImport(input.name)
                closing == <<">", "<", "/">> \o catalog[c].name \o <<">">>
                usageWithChildren ==
                    IF input.children # None /\ Len(input.children[1]) > 0
                    THEN LET wrapped == <<">">> \o input.children[1] \o <<"<", "/">> \o catalog[c].name \o <<">">>
                         IN IF includes(usage, SELF_CLOSE)
                            THEN replaceFirstExpanding(usage, SELF_CLOSE, wrapped)
                            ELSE IF includes(usage, closing)
                            THEN replaceFirstExpanding(usage, closing, wrapped)
                            ELSE usage
                    ELSE usage
            IN [ usage |-> usageWithChildren,
                 import |-> importStatement,
                 complete |-> importStatement \o NEWLINES \o usageWithChildren ]

(***************************************************************************)
(* AgentAPI.suggestAlternatives: the other components sharing a tag,       *)
(* most shared tags first.                                                 *)
(***************************************************************************)
\* a.tags.filter(tag => component.tags.includes(tag)).length
matchingTags(a, component) ==
    Cardinality({k \in 1..Len(catalog[a].tags) : arrayIncludes(catalog[component].tags, catalog[a].tags[k])})

RECURSIVE filterAlternatives(_, _, _)
\* this.components.filter(c => c.name !== componentName && c.tags.some(...)):
\* the name is compared with the argument as it was passed
filterAlternatives(componentName, component, i) ==
    IF i > Len(catalog) THEN <<>>
    ELSE (IF catalog[i].name # componentName /\ matchingTags(i, component) > 0 THEN <<i>> ELSE <<>>)
         \o filterAlternatives(componentName, component, i + 1)

RECURSIVE sortByMatches(_, _)
\* Array.prototype.sort((a, b) => bMatches - aMatches): a stable sort, so
\* each element goes after the earlier elements with at least as many matches
sortByMatches(arr, component) ==
    IF Len(arr) = 0 THEN <<>>
    ELSE LET last == arr[Len(arr)]
             sorted == sortByMatches(SubSeq(arr, 1, Len(arr) - 1), component)
             ahead == {k \in 1..Len(sorted) : matchingTags(sorted[k], component) >= matchingTags(last, component)}
             n == IF ahead = {} THEN 0 ELSE CHOOSE k \in ahead : \A j \in ahead : j <= k
         IN SubSeq(sorted, 1, n) \o <<last>> \o SubSeq(sorted, n + 1, Len(sorted))

suggestAlternatives(componentName) ==
    LET component == getComponent(componentName)
    IN IF component = NoComponent THEN <<>>
       ELSE LET top == slice(sortByMatches(filterAlternatives(componentName, component, 1), component), 5)
            IN [k \in 1..Len(top) |-> catalog[top[k]].name]

(***************************************************************************)
(* What the queries leave in this.components and in the tag index, and     *)
(* AgentAPI.getStats.                                                      *)
(***************************************************************************)
\* this.components after sort() applied to this.components itself
suggestAlternatives_components_sortedInPlace(componentName) ==
    LET component == getComponent(componentName)
    IN IF component = NoComponent THEN catalog
       ELSE LET order == sortByMatches([k \in 1..Len(catalog) |-> k], component)
            IN [k \in 1..Len(catalog) |-> catalog[order[k]]]

\* this.components after suggestAlternatives: filter() returns a new array
\* and sort(), slice() and map() work on that array
suggestAlternatives_components(componentName) ==
    LET component == getComponent(componentName)
    IN IF component = NoComponent THEN catalog
       ELSE LET filtered == filterAlternatives(componentName, component, 1)
                sorted == sortByMatches(filtered, component)
            IN catalog

\* the tag index after findByTags: every array of the index is copied into a
\* new Set, and delete() removes from the Set of the first tag only
findByTags_tagIndex(tags) ==
    IF Len(tags) = 0 THEN tagIndex
    ELSE LET sets == [i \in 1..Len(tags) |-> newSet(findByTag(tags[i]), Len(findByTag(tags[i])))]
         IN tagIndex

\* the number of components satisfying a test
countWhere(matching) == Cardinality({c \in 1..Len(catalog) : c \in matching})

AgentAPI_getStats ==
    [ total |-> Len(catalog),
      byCategory |-> [k \in {"atom", "molecule", "organism", "template", "pattern"} |->
                          countWhere({c \in 1..Len(catalog) : catalog[c].category = k})],
      byComplexity |-> [k \in {"simple", "moderate", "complex"} |->
                            countWhere({c \in 1..Len(catalog) : catalog[c].complexity = k})],
      documented |-> countWhere({c \in 1..Len(catalog) :
                                    /\ truthy(catalog[c].schema) /\ catalog[c].schema # "pending"
                                    /\ truthy(catalog[c].documentation) /\ catalog[c].documentation # "pending"}),
      withTests |-> countWhere({c \in 1..Len(catalog) : catalog[c].hasTesting}),
      withStorybook |-> countWhere({c \in 1..Len(catalog) : catalog[c].hasStorybook}),
      wcagCompliance |-> [ AA |-> countWhere({c \in 1..Len(catalog) : catalog[c].wcagLevel = "AA"}),
                           AAA |-> countWhere({c \in 1..Len(catalog) : catalog[c].wcagLevel = "AAA"}) ] ]

(***************************************************************************)
(* Tool layer: the callback registerTools gives the server for every tool  *)
(* of allTools, which are the discovery tools.                             *)
(***************************************************************************)
\* an exception left the handler
threw(outcome) == "threw" \in DOMAIN outcome

\* the try / catch around tool.handler(args); the JSON text of the content
\* is represented by the value it encodes
toolCallback(outcome) ==
    IF threw(outcome)
    THEN [ content |-> <<[ type |-> "text",
                           text |-> [ error |-> "TOOL_ERROR", message |-> outcome.message ] ]>>,
           isError |-> TRUE ]
    ELSE [ content |-> <<[ type |-> "text", text |-> outcome ]>>, isError |-> FALSE ]

(***************************************************************************)
(* AgentAPI.validateImportPath.                                            *)
(***************************************************************************)
AT_COMPONENTS == <<"@", "/", "c", "o", "m", "p", "o", "n", "e", "n", "t", "s", "/">>

\* replace('.tsx', '').replace('.ts', '')
dropExtensions(s) == replaceFirst(replaceFirst(s, DOT_TSX, <<>>), DOT_TS, <<>>)

\* component.path.replace('src/', '@/').replace('.tsx', '').replace('.ts', '')
expectedPath(path) == dropExtensions(replaceFirst(path, SRC_SLASH, AT_SLASH))

\* importPath.replace('@/components/', '@/').replace('.tsx', '').replace('.ts', '')
normalizedImport(importPath) == dropExtensions(replaceFirst(importPath, AT_COMPONENTS, AT_SLASH))

\* expected is None in the error of an unknown component
importError(importPath, error, expected) ==
    [ field |-> "import", value |-> importPath, error |-> error, expected |-> expected ]

validateImportPath(componentName, importPath) ==
    LET component == getComponent(componentName)
    IN IF component = NoComponent
       THEN [ valid |-> FALSE, errors |-> <<importError(importPath, "not found", None)>> ]
       ELSE IF ~includes(normalizedImport(importPath), toLowerCase(catalog[component].name))
       THEN [ valid |-> FALSE,
              errors |-> <<importError(importPath, "Import path does not match component location",
                                       Some(expectedPath(catalog[component].path)))>> ]
       ELSE [ valid |-> TRUE, errors |-> <<>> ]

(***************************************************************************)
(* The chat hook (useChat) and the stream reader (sendMessageStream).      *)
(* Message texts are sequences of characters; a message is a record with   *)
(* the fields id, role, content, status and error (the timestamp is left   *)
(* out: nothing reads it).                                                 *)
(***************************************************************************)

\* String.prototype.trim over the blank character of the modelled texts
RECURSIVE trimStart(_)
trimStart(s) ==
    IF s # <<>> /\ Head(s) = " " THEN trimStart(Tail(s)) ELSE s

RECURSIVE trimEnd(_)
trimEnd(s) ==
    IF s # <<>> /\ s[Len(s)] = " " THEN trimEnd(SubSeq(s, 1, Len(s) - 1)) ELSE s

trim(s) == trimEnd(trimStart(s))

\* nanoid(): the n-th identifier drawn is different from every earlier one
NanoIds == <<"id-1", "id-2", "id-3", "id-4", "id-5", "id-6", "id-7", "id-8">>
nanoid(n) == NanoIds[n]

\* { ...msg, ...updates }
spread(msg, updates) ==
    [k \in DOMAIN msg |-> IF k \in DOMAIN updates THEN updates[k] ELSE msg[k]]

\* updateMessage: prev.map(msg => msg.id === messageId ? {...msg, ...updates} : msg)
updateMessage(prev, messageId, updates) ==
    [k \in DOMAIN prev |->
        IF prev[k].id = messageId THEN spread(prev[k], updates) ELSE prev[k]]

\* the content branch of the chunk callback: the text is appended and the
\* status is set to 'streaming'
appendContent(prev, messageId, text) ==
    [k \in DOMAIN prev |->
        IF prev[k].id = messageId
        THEN spread(prev[k], [content |-> prev[k].content \o text, status |-> "streaming"])
        ELSE prev[k]]

\* chunk.error || 'An error occurred'
errorOr(chunkError, fallback) ==
    IF chunkError = Undefined \/ chunkError = "" THEN fallback ELSE chunkError

\* the callback sendMessage hands to sendMessageStream, for the placeholder
\* assistantMessageId
onChunk(assistantMessageId, chunk) ==
    IF chunk.type = "content" /\ chunk.content # <<>>
    THEN /\ messages' = appendContent(messages, assistantMessageId, chunk.content)
         /\ UNCHANGED <<isStreaming, currentStreamingMessageId>>
    ELSE IF chunk.type = "end"
    THEN /\ messages' = updateMessage(messages, assistantMessageId, [status |-> "sent"])
         /\ isStreaming' = FALSE
         /\ currentStreamingMessageId' = Null
    ELSE IF chunk.type = "error"
    THEN /\ messages' = updateMessage(messages, assistantMessageId,
                            [status |-> "error",
                             error |-> errorOr(chunk.error, "An error occurred")])
         /\ isStreaming' = FALSE
         /\ currentStreamingMessageId' = Null
    ELSE UNCHANGED <<messages, isStreaming, currentStreamingMessageId>>

\* the catch branch of sendMessage
catchError(assistantMessageId, message) ==
    /\ messages' = updateMessage(messages, assistantMessageId,
                       [status |-> "error", error |-> message])
    /\ isStreaming' = FALSE
    /\ currentStreamingMessageId' = Null

\* sendMessage up to the call of sendMessageStream.  The AbortController is
\* stored in the ref and its signal is given to nobody: the request record
\* added to streams carries no reference to it.
sendMessage(content) ==
    IF trim(content) = <<>>
    THEN UNCHANGED chatVars
    ELSE LET userId == nanoid(Len(messages) + 1)
             assistantMessageId == nanoid(Len(messages) + 2)
             userMessage == [id |-> userId, role |-> "user", content |-> trim(content),
                             status |-> "sent", error |-> Undefined]
             assistantMessage == [id |-> assistantMessageId, role |-> "assistant",
                                  content |-> <<>>, status |-> "streaming",
                                  error |-> Undefined]
         IN  /\ messages' = messages \o <<userMessage, assistantMessage>>
             /\ isStreaming' = TRUE
             /\ currentStreamingMessageId' = assistantMessageId
             /\ abortControllerRef' = "AbortController"
             /\ streams' = Append(streams, [assistant |-> assistantMessageId,
                                            phase |-> "fetching",
                                            stopped |-> FALSE])

\* stopStreaming: abort() on a controller whose signal no request listens
\* to, so no entry of streams changes its phase; stopped records which
\* placeholder the call has marked 'sent'
stopStreaming ==
    /\ abortControllerRef' = Null
    /\ messages' = IF currentStreamingMessageId # Null
                   THEN updateMessage(messages, currentStreamingMessageId,
                                      [status |-> "sent"])
                   ELSE messages
    /\ isStreaming' = FALSE
    /\ currentStreamingMessageId' = Null
    /\ streams' = [i \in DOMAIN streams |->
                      IF streams[i].assistant = currentStreamingMessageId
                      THEN [streams[i] EXCEPT !.stopped = TRUE]
                      ELSE streams[i]]


(***************************************************************************)
(* Specification Spec: a catalog is loaded, both indices are built, and    *)
(* lookups by name and schema / documentation loads are served.            *)
(***************************************************************************)
PathA == <<"s", "r", "c", "/", "a", ".", "t", "s", "x">>
DescA == <<"d", "e", "s", "c">>

LookupRecords ==
    { ComponentMetadata(<<"A", "b">>, "atom", PathA, "src/ab.schema.json", "src/ab.md", <<>>, "simple", DescA, FALSE, "documented"),
      ComponentMetadata(<<"a", "B">>, "atom", PathA, "pending", Null, <<>>, "simple", DescA, FALSE, "pending"),
      ComponentMetadata(<<"C", "d">>, "molecule", PathA, Null, "pending", <<>>, "simple", DescA, FALSE, "pending"),
      ComponentMetadata(<<"C", "d", "e", "f", "g", "h">>, "molecule", PathA, "src/c.schema.json", Null, <<>>, "simple", DescA, FALSE, "pending") }

LookupNames ==
    Casings(<<"A", "b">>) \cup Casings(<<"C", "d">>)
        \cup {<<"C", "d", "e", "f", "g", "h">>, <<"X", "y", "z", "w", "v", "u">>}

NoCall == [name |-> "none", args |-> <<>>]

InitWith(catalogs) ==
    /\ catalog \in catalogs
    /\ componentMap = <<>>
    /\ nameIndex = <<>>
    /\ categoryIndex = <<>>
    /\ tagIndex = <<>>
    /\ status = "loading"
    /\ op = NoCall
    /\ result = Null
    /\ InvoiceMounted
    /\ ChatMounted

\* module load: new AgentAPI() and new ComponentRegistryIndex(registry)
Construct ==
    /\ status = "loading"
    /\ componentMap' = AgentAPI_constructor(catalog, 1, <<>>)
    /\ LET idx == buildIndices(catalog, 1, << <<>>, <<>>, <<>> >>)
       IN /\ nameIndex' = idx[1]
          /\ categoryIndex' = idx[2]
          /\ tagIndex' = idx[3]
    /\ status' = "serving"
    /\ UNCHANGED <<catalog, op, result, invoiceVars, chatVars>>

\* a query is received and answered: none of them assigns to the registry
Call(name, args, res) ==
    /\ status = "serving"
    /\ op = NoCall
    /\ op' = [name |-> name, args |-> args]
    /\ result' = res
    /\ UNCHANGED <<registryVars, invoiceVars, chatVars>>

\* the answer has been handed to the caller; the server waits for the next call
Return ==
    /\ op # NoCall
    /\ op' = NoCall
    /\ result' = Null
    /\ UNCHANGED <<registryVars, invoiceVars, chatVars>>

GetComponent == \E n \in LookupNames : Call("getComponent", n, getComponent(n))

FindByName == \E n \in LookupNames : Call("findByName", n, findByName(n))

ToolGetComponent ==
    \E n \in LookupNames : Call("get_component", [name |-> n], tool_getComponent([name |-> n]))

ToolLoadSchema ==
    \E n \in LookupNames, importOk \in BOOLEAN :
        Call("load_schema", [name |-> n, importOk |-> importOk], tool_loadSchema([name |-> n], importOk))

ToolLoadDocumentation ==
    \E n \in LookupNames :
        Call("load_documentation", [name |-> n], tool_loadDocumentation([name |-> n]))

Init == InitWith(Catalogs(LookupRecords, MaxCatalog))

Next ==
    \/ Construct
    \/ GetComponent
    \/ FindByName
    \/ ToolGetComponent
    \/ ToolLoadSchema
    \/ ToolLoadDocumentation
    \/ Return

Spec == Init /\ [][Next]_vars

(***************************************************************************)
(* Properties.                                                             *)
(***************************************************************************)
sameNameIgnoringCase(a, b) == toLowerCase(a) = toLowerCase(b)

HasDuplicateNames ==
    \E i, j \in 1..Len(catalog) : i < j /\ sameNameIgnoringCase(catalog[i].name, catalog[j].name)

\* C1: a lookup by any casing of the name of a catalog record R returns R
\* itself, whatever catalog the index was built from.
C1_LookupReturnsTheRecord ==
    op.name \in {"getComponent", "findByName"} =>
        \A i \in 1..Len(catalog) : op.args \in Casings(catalog[i].name) => result = i

\* C2: a catalog with two names equal ignoring case is a fatal load error:
\* the process never reaches the serving state and never answers a query.
C2_DuplicateNameIsFatal ==
    HasDuplicateNames => (status # "serving" /\ op.name = "none")

ToolCalls == {"get_component", "load_schema", "load_documentation"}

\* the error code of a tool result, Null for a result without an error field
errorOf(r) == IF "error" \in DOMAIN r THEN r.error ELSE Null

isCatalogName(n) == \E i \in 1..Len(catalog) : catalog[i].name = n

\* C9: every COMPONENT_NOT_FOUND result, from whichever tool returns it,
\* carries a suggestions list of at most 5 names of catalog records.
C9_NotFoundCarriesSuggestions ==
    (op.name \in ToolCalls /\ errorOf(result) = "COMPONENT_NOT_FOUND") =>
        /\ "suggestions" \in DOMAIN result
        /\ Len(result.suggestions) <= 5
        /\ \A k \in 1..Len(result.suggestions) : isCatalogName(result.suggestions[k])

nameHasRecord(n) == \E i \in 1..Len(catalog) : sameNameIgnoringCase(catalog[i].name, n)

\* the artifact reference that the loader called by op looks at
artifactRef(c) == IF op.name = "load_schema" THEN catalog[c].schema ELSE catalog[c].documentation

notAvailable == IF op.name = "load_schema" THEN "SCHEMA_NOT_AVAILABLE" ELSE "DOCUMENTATION_NOT_AVAILABLE"

\* C10: loading a schema (documentation) for a name that no record carries
\* yields COMPONENT_NOT_FOUND; for a name that resolves to a record whose
\* reference is null or 'pending' it yields SCHEMA_NOT_AVAILABLE
\* (DOCUMENTATION_NOT_AVAILABLE); a name carried by a record never yields
\* COMPONENT_NOT_FOUND, and the outcome of the file import never turns one
\* error kind into the other.
C10_TwoErrorKinds ==
    op.name \in {"load_schema", "load_documentation"} =>
        LET n == op.args.name
            c == mapGet(componentMap, toLowerCase(n), NoComponent)
        IN /\ ~nameHasRecord(n) => errorOf(result) = "COMPONENT_NOT_FOUND"
           /\ nameHasRecord(n) => (c # NoComponent /\ errorOf(result) # "COMPONENT_NOT_FOUND")
           /\ (nameHasRecord(n) /\ artifactRef(c) \in {Null, "pending"}) => errorOf(result) = notAvailable
           /\ (nameHasRecord(n) /\ errorOf(result) = Null) => artifactRef(c) \notin {Null, "pending"}
           /\ errorOf(result) \in {Null, "COMPONENT_NOT_FOUND", notAvailable}
           /\ op.name = "load_schema" =>
                 (errorOf(tool_loadSchema([name |-> n], TRUE)) = "COMPONENT_NOT_FOUND"
                    <=> errorOf(tool_loadSchema([name |-> n], FALSE)) = "COMPONENT_NOT_FOUND")

\* a record with a 'pending' schema was asked for and reported as not available
C10_Witness ==
    /\ op.name = "load_schema"
    /\ op.args.importOk
    /\ errorOf(result) = "SCHEMA_NOT_AVAILABLE"
    /\ nameHasRecord(op.args.name)
    /\ catalog[getComponent(op.args.name)].schema = "pending"
    /\ \E i \in 1..Len(catalog) : catalog[i].documentation = "pending"

(***************************************************************************)
(* Specification SpecDiscover: filtered discovery over catalogs whose      *)
(* records differ in category, tags, complexity, references and flags.     *)
(***************************************************************************)
TagForm == <<"f", "o", "r", "m">>
TagNav == <<"n", "a", "v">>

DiscoverRecords ==
    { ComponentMetadata(<<"B", "t", "n">>, "atom", PathA, "src/btn.schema.json", "src/btn.md", <<TagForm, TagNav>>, "simple", DescA, TRUE, "documented"),
      ComponentMetadata(<<"I", "n", "p">>, "atom", PathA, "pending", Null, <<TagForm>>, "moderate", DescA, FALSE, "pending"),
      ComponentMetadata(<<"N", "a", "v">>, "molecule", PathA, Null, "pending", <<TagNav>>, "simple", DescA, FALSE, "pending"),
      ComponentMetadata(<<"C", "r", "d">>, "molecule", PathA, "src/crd.schema.json", Null, <<>>, "complex", DescA, TRUE, "integrated"),
      ComponentMetadata(<<"T", "b", "l">>, "organism", PathA, Null, "src/tbl.md", <<TagNav, TagForm>>, "simple", DescA, FALSE, "pending") }

TagLists ==
    { <<>>, <<TagForm>>, <<TagNav>>, <<TagForm, TagNav>>, <<TagNav, TagForm>>, <<TagForm, TagForm>> }

FilterFields ==
    {"category", "tags", "complexity", "migrationStatus", "hasSchema", "hasDocumentation", "hasTesting"}

ComponentFilters ==
    [ category : {None, Some("atom")},
      tags : {None} \cup {Some(t) : t \in TagLists},
      complexity : {None, Some("simple")},
      migrationStatus : {None, Some("pending")},
      hasSchema : {None, Some(TRUE), Some(FALSE)},
      hasDocumentation : {None, Some(TRUE), Some(FALSE)},
      hasTesting : {None, Some(FALSE)} ]

DiscoverComponents ==
    \E f \in {None} \cup {Some(g) : g \in ComponentFilters} :
        Call("discoverComponents", f, discoverComponents(f))

FindByTags == \E t \in TagLists : Call("findByTags", t, findByTags(t))

DiscoverComponentsInputs ==
    [ category : {None, Some("atom")},
      tags : {None, Some(<<TagForm>>)},
      complexity : {None},
      hasSchema : {None, Some(TRUE), Some(FALSE)},
      hasDocumentation : {None, Some(TRUE), Some(FALSE)},
      limit : Limits ]

ToolDiscoverComponents ==
    \E input \in DiscoverComponentsInputs :
        Call("discover_components", input, tool_discoverComponents(input))

DiscoverNames == {r.name : r \in DiscoverRecords}

GetComponentHealth ==
    \E n \in DiscoverNames : Call("getComponentHealth", n, getComponentHealth(n))

DiscoverGetComponent ==
    \E n \in DiscoverNames : Call("get_component", [name |-> n], tool_getComponent([name |-> n]))

InitDiscover == InitWith(Catalogs(DiscoverRecords, MaxDiscoverCatalog))

NextDiscover ==
    \/ Construct
    \/ DiscoverComponents
    \/ FindByTags
    \/ ToolDiscoverComponents
    \/ GetComponentHealth
    \/ DiscoverGetComponent
    \/ Return

SpecDiscover == InitDiscover /\ [][NextDiscover]_vars

\* the matches of a discover_components call, computed without the limit
matchesOf(args) ==
    discoverComponents(Some([ category |-> args.category, tags |-> args.tags,
                              complexity |-> args.complexity, migrationStatus |-> None,
                              hasSchema |-> args.hasSchema,
                              hasDocumentation |-> args.hasDocumentation,
                              hasTesting |-> None ]))

\* C30: for every non-negative integer limit a discover_components call
\* returns the first min(limit, totalMatches) matches in catalog order:
\* count is the number of components returned, count never exceeds limit,
\* and totalMatches is the number of matches without the limit.
C30_LimitBoundsTheResult ==
    (op.name = "discover_components" /\ op.args.limit # None) =>
        LET limit == op.args.limit[1]
            matches == matchesOf(op.args)
            first == IF limit < Len(matches) THEN limit ELSE Len(matches)
        IN /\ result.count = Len(result.components)
           /\ result.count <= limit
           /\ result.count = first
           /\ result.totalMatches = Len(matches)
           /\ \A k \in 1..Len(result.components) :
                 k <= Len(matches) /\ result.components[k].name = catalog[matches[k]].name

\* what the supplied predicates of a filter require of record c
satisfiesFilters(c, f) ==
    /\ f.category # None => catalog[c].category = f.category[1]
    /\ (f.tags # None /\ f.tags[1] # <<>>) => (Range(catalog[c].tags) \cap Range(f.tags[1]) # {})
    /\ f.complexity # None => catalog[c].complexity = f.complexity[1]
    /\ f.migrationStatus # None => catalog[c].migrationStatus = f.migrationStatus[1]
    /\ f.hasSchema # None => (f.hasSchema[1] <=> catalog[c].schema \notin {Null, "pending"})
    /\ f.hasDocumentation # None => (f.hasDocumentation[1] <=> catalog[c].documentation \notin {Null, "pending"})
    /\ f.hasTesting # None => catalog[c].hasTesting = f.hasTesting[1]

inCatalogOrder(r) == \A k \in 1..(Len(r) - 1) : r[k] < r[k + 1]

noFilters == [p \in FilterFields |-> None]

\* the filter that keeps only the fields in K of f
onlyFields(f, K) == [p \in FilterFields |-> IF p \in K THEN f[p] ELSE None]

\* C3: discoverComponents returns exactly the records satisfying every
\* supplied predicate, in catalog order; omitted predicates and an empty
\* tags list do not constrain; the result of a filter is contained in the
\* results of each of its predicates alone and of the remaining predicates.
C3_FilterIsConjunction ==
    op.name = "discoverComponents" =>
        LET f == IF op.args = None THEN noFilters ELSE op.args[1]
        IN /\ Range(result) = {c \in 1..Len(catalog) : satisfiesFilters(c, f)}
           /\ inCatalogOrder(result)
           /\ \A p \in FilterFields :
                  Range(result) \subseteq
                      Range(discoverComponents(Some(onlyFields(f, {p}))))
                          \cap Range(discoverComponents(Some(onlyFields(f, FilterFields \ {p}))))
           /\ discoverComponents(Some([f EXCEPT !.tags = Some(<<>>)]))
                  = discoverComponents(Some([f EXCEPT !.tags = None]))

\* a filter with two predicates removed a record that one of them alone keeps
C3_Witness ==
    /\ op.name = "discoverComponents"
    /\ op.args # None
    /\ op.args[1].hasSchema = Some(FALSE)
    /\ op.args[1].tags = Some(<<TagForm>>)
    /\ Len(catalog) = 2
    /\ Len(result) = 1
    /\ Len(discoverComponents(Some(onlyFields(op.args[1], {"tags"})))) = 2

oneTag(f, k) == Some([f EXCEPT !.tags = Some(<<f.tags[1][k]>>)])

\* C4 as claimed: on every tag-filtering path, filtering by two tags gives
\* the union of the results of filtering by each tag.
C4_TagFilterIsUnionEverywhere ==
    /\ (op.name = "discoverComponents" /\ op.args # None /\ op.args[1].tags # None /\ Len(op.args[1].tags[1]) = 2) =>
          Range(result) = Range(discoverComponents(oneTag(op.args[1], 1)))
                              \cup Range(discoverComponents(oneTag(op.args[1], 2)))
    /\ (op.name = "findByTags" /\ Len(op.args) = 2) =>
          Range(result) = Range(findByTags(<<op.args[1]>>)) \cup Range(findByTags(<<op.args[2]>>))

\* C4 amended: discoverComponents filters by tags any-of (the result for two
\* tags is the union, in catalog order, of the results for each tag), while
\* ComponentRegistryIndex.findByTags is all-of (the result for two tags is
\* the intersection of the results for each tag).
C4_DiscoverIsAnyOfFindByTagsIsAllOf ==
    /\ (op.name = "discoverComponents" /\ op.args # None /\ op.args[1].tags # None /\ Len(op.args[1].tags[1]) = 2) =>
          /\ Range(result) = Range(discoverComponents(oneTag(op.args[1], 1)))
                                  \cup Range(discoverComponents(oneTag(op.args[1], 2)))
          /\ inCatalogOrder(result)
    /\ (op.name = "findByTags" /\ Len(op.args) = 2) =>
          Range(result) = Range(findByTags(<<op.args[1]>>)) \cap Range(findByTags(<<op.args[2]>>))

\* filtering by two tags returned a record that carries only one of them
C4_Witness ==
    /\ op.name = "discoverComponents"
    /\ op.args # None
    /\ op.args[1] = [noFilters EXCEPT !.tags = Some(<<TagForm, TagNav>>)]
    /\ \E k \in 1..Len(result) : catalog[result[k]].tags = <<TagNav>>
    /\ \E k \in 1..Len(result) : catalog[result[k]].tags = <<TagForm>>

\* the reference ref of a record is present: neither null nor 'pending'
present(ref) == ref \notin {Null, "pending"}

\* C11: a 'pending' schema or documentation reference is absent for every
\* operation that reports or tests presence: the summary's hasSchema /
\* hasDocumentation is false for it, the detail view shows null, component
\* health reports it missing, and the flags of a summary agree with the
\* hasSchema / hasDocumentation filter that selected the record.
C11_PendingIsAbsentEverywhere ==
    /\ op.name = "discover_components" =>
          \A k \in 1..Len(result.components) :
              \E c \in 1..Len(catalog) :
                  /\ result.components[k].name = catalog[c].name
                  /\ result.components[k].hasSchema <=> present(catalog[c].schema)
                  /\ result.components[k].hasDocumentation <=> present(catalog[c].documentation)
                  /\ op.args.hasSchema # None => result.components[k].hasSchema = op.args.hasSchema[1]
                  /\ op.args.hasDocumentation # None =>
                        result.components[k].hasDocumentation = op.args.hasDocumentation[1]
    /\ (op.name = "get_component" /\ errorOf(result) = Null) =>
          LET c == getComponent(op.args.name)
          IN /\ ~present(catalog[c].schema) => result.schema = Null
             /\ ~present(catalog[c].documentation) => result.documentation = Null
    /\ (op.name = "getComponentHealth" /\ getComponent(op.args) # NoComponent) =>
          LET c == getComponent(op.args)
          IN /\ result.hasSchema <=> present(catalog[c].schema)
             /\ result.hasDocumentation <=> present(catalog[c].documentation)
             /\ arrayIncludes(result.issues, "Missing component schema") <=> ~present(catalog[c].schema)
             /\ arrayIncludes(result.issues, "Missing documentation") <=> ~present(catalog[c].documentation)


(***************************************************************************)
(* Specification SpecIntegrity: catalogs in which a record may carry a     *)
(* category, complexity or WCAG level outside its enumeration, as the      *)
(* JSON catalog is cast to ComponentMetadata[] without a check.            *)
(***************************************************************************)
MaxIntegrityCatalog == 2

GoodRecord ==
    ComponentMetadata(<<"O", "k">>, "atom", PathA, Null, Null, <<TagForm>>, "simple", DescA, FALSE, "pending")

IntegrityRecords ==
    { GoodRecord,
      [GoodRecord EXCEPT !.name = <<"W", "g">>, !.category = "widget"],
      [GoodRecord EXCEPT !.name = <<"H", "d">>, !.complexity = "hard"],
      [GoodRecord EXCEPT !.name = <<"A", "x">>, !.wcagLevel = "AAAA"],
      [GoodRecord EXCEPT !.name = <<"V", "r">>, !.version = <<"1", ".", "0">>, !.tags = <<>>] }

IntegrityNames == {r.name : r \in IntegrityRecords}

IntegrityGetComponent == \E n \in IntegrityNames : Call("getComponent", n, getComponent(n))

IntegrityDiscover ==
    \E f \in {None, Some([noFilters EXCEPT !.category = Some("atom")]),
              Some([noFilters EXCEPT !.category = Some("widget")]),
              Some([noFilters EXCEPT !.complexity = Some("hard")])} :
        Call("discoverComponents", f, discoverComponents(f))

IntegrityToolGetComponent ==
    \E n \in IntegrityNames : Call("get_component", [name |-> n], tool_getComponent([name |-> n]))

GenerateValidationReport ==
    Call("generateValidationReport", <<>>, generateValidationReport(catalog))

InitIntegrity == InitWith(Catalogs(IntegrityRecords, MaxIntegrityCatalog))

NextIntegrity ==
    \/ Construct
    \/ IntegrityGetComponent
    \/ IntegrityDiscover
    \/ IntegrityToolGetComponent
    \/ GenerateValidationReport
    \/ Return

SpecIntegrity == InitIntegrity /\ [][NextIntegrity]_vars

outsideEnumerations(r) ==
    \/ r.category \notin Categories
    \/ r.complexity \notin Complexities
    \/ r.wcagLevel \notin {"A", "AA", "AAA"}

\* C12: a catalog holding a record whose category, complexity or
\* accessibility level is outside its enumeration is a load error: the
\* process never reaches the serving state, and no query is ever answered
\* from such a catalog.
C12_OutOfEnumerationIsLoadError ==
    (\E i \in 1..Len(catalog) : outsideEnumerations(catalog[i])) =>
        (status # "serving" /\ op.name = "none")

(***************************************************************************)
(* Specification SpecValidate: property sets are validated against         *)
(* schemas, directly and through AgentAPI.validateProps.  The v of a       *)
(* JavaScript value is its text.                                           *)
(***************************************************************************)
MaxProps == 2

JsString(text) == [type |-> "string", v |-> text]
JsBoolean(text) == [type |-> "boolean", v |-> text]
JsNumber(text) == [type |-> "number", v |-> text]

PropNames == {"variant", "disabled", "count", "title", "extra", "constructor"}

PropValues == {JsString("default"), JsString("invalid"), JsBoolean("true"), JsNumber("1")}

\* the objects with at most n own properties, in every insertion order
PropSets(n) ==
    {p \in UNION {[1..k -> PropNames \X PropValues] : k \in 0..n} :
        \A i, j \in 1..Len(p) : i # j => p[i][1] # p[j][1]}

EnumDef(required) ==
    [type |-> "enum", values |-> Some(<<JsString("default"), JsString("destructive")>>), required |-> required]

TypeDef(type, required) == [type |-> type, values |-> None, required |-> required]

ButtonSchemaProps ==
    << <<"variant", EnumDef(TRUE)>>, <<"disabled", TypeDef("boolean", FALSE)>>,
       <<"count", TypeDef("number", FALSE)>>, <<"title", TypeDef("string", TRUE)>> >>

Schemas ==
    { None,
      Some([props |-> None]),
      Some([props |-> Some(<<>>)]),
      Some([props |-> Some(ButtonSchemaProps)]),
      Some([props |-> Some(<< <<"variant", TypeDef("string", FALSE)>>, <<"disabled", EnumDef(FALSE)>>,
                              <<"constructor", TypeDef("string", TRUE)>> >>)]),
      Some([props |-> Some(<< <<"count", TypeDef("boolean", TRUE)>>,
                              <<"title", [type |-> "enum", values |-> None, required |-> FALSE]>> >>)]) }

NameButton == <<"B", "u", "t", "t", "o", "n">>

ValidateCatalog ==
    << ComponentMetadata(NameButton, "atom", PathA, "src/button.schema.json", "src/button.md", <<TagForm>>, "simple", DescA, FALSE, "documented"),
       ComponentMetadata(<<"I", "n", "p">>, "atom", PathA, "pending", "pending", <<TagForm>>, "simple", DescA, FALSE, "pending"),
       ComponentMetadata(<<"N", "a", "v">>, "molecule", PathA, Null, Null, <<TagNav>>, "simple", DescA, FALSE, "pending"),
       ComponentMetadata(<<"C", "r", "d">>, "molecule", PathA, "src/crd.schema.json", Null, <<TagForm>>, "simple", DescA, FALSE, "integrated") >>

ValidateNames == {ValidateCatalog[i].name : i \in 1..Len(ValidateCatalog)} \cup {<<"X", "y", "z">>}

ValidatePropsAgainstSchema ==
    \E schema \in Schemas, props \in PropSets(MaxProps) :
        Call("validatePropsAgainstSchema", [schema |-> schema, props |-> props],
             validatePropsAgainstSchema(schema, props))

ValidateProps ==
    \E n \in ValidateNames, props \in PropSets(1), required \in {None} \cup {Some(sc) : sc \in Schemas} :
        Call("validateProps", [name |-> n, props |-> props, required |-> required],
             AgentAPI_validateProps(n, props, required))

InitValidate == InitWith({ValidateCatalog})

NextValidate ==
    \/ Construct
    \/ ValidatePropsAgainstSchema
    \/ ValidateProps
    \/ Return

SpecValidate == InitValidate /\ [][NextValidate]_vars

\* the schema of the call has a props section
hasPropsSection(schema) == schema # None /\ schema[1].props # None

declared(schema, name) == mapHas(schema[1].props[1], name)

supplied(props, name) == mapHas(props, name)

\* the number of entries of the list that are about the property name
countFor(list, name) == Cardinality({k \in 1..Len(list) : list[k].prop = name})

\* C13: valid is true iff errors is empty; a supplied property that the
\* schema does not declare produces a warning and no error, and removing
\* the undeclared properties does not change valid.
C13_ValidIffNoErrors ==
    op.name = "validatePropsAgainstSchema" =>
        /\ result.valid <=> (result.errors = <<>>)
        /\ hasPropsSection(op.args.schema) =>
              /\ \A i \in 1..Len(op.args.props) :
                    ~declared(op.args.schema, op.args.props[i][1]) =>
                        /\ countFor(result.warnings, op.args.props[i][1]) >= 1
                        /\ countFor(result.errors, op.args.props[i][1]) = 0
              /\ LET declaredOnes == {i \in 1..Len(op.args.props) : declared(op.args.schema, op.args.props[i][1])}
                     kept == filterIdx([i \in 1..Len(op.args.props) |-> i], declaredOnes, 1)
                 IN validatePropsAgainstSchema(op.args.schema, [k \in 1..Len(kept) |-> op.args.props[kept[k]]]).valid
                        = result.valid

\* the value does not conform to the definition of a declared property
mismatches(def, value) ==
    \/ def.type = "enum" /\ def.values # None /\ value \notin Range(def.values[1])
    \/ def.type \in {"boolean", "number", "string"} /\ value.type # def.type

conforms(def, value) ==
    \/ def.type = "enum" /\ def.values # None /\ value \in Range(def.values[1])
    \/ def.type \in {"boolean", "number", "string"} /\ value.type = def.type

\* C14: for every declared property that is supplied, a value outside the
\* declared enum values or of another runtime type than the declared
\* boolean / number / string gives exactly one error for that property (an
\* enum error carries the declared values as expected); a conforming value
\* gives no error for it.
C14_OneErrorPerMismatch ==
    (op.name = "validatePropsAgainstSchema" /\ hasPropsSection(op.args.schema)) =>
        \A i \in 1..Len(op.args.props) :
            LET name == op.args.props[i][1]
                value == op.args.props[i][2]
            IN declared(op.args.schema, name) =>
                  LET def == mapGet(op.args.schema[1].props[1], name, Undefined)
                  IN /\ mismatches(def, value) =>
                           /\ countFor(result.errors, name) = 1
                           /\ ~result.valid
                           /\ \A k \in 1..Len(result.errors) :
                                  result.errors[k].prop = name =>
                                      /\ result.errors[k].value = value
                                      /\ def.type = "enum" =>
                                            /\ "expected" \in DOMAIN result.errors[k]
                                            /\ result.errors[k].expected = def.values[1]
                     /\ conforms(def, value) => countFor(result.errors, name) = 0

\* a boolean where an enum is declared and a string where a number is
\* declared gave one error each, the enum one with its expected values
C14_Witness ==
    /\ op.name = "validatePropsAgainstSchema"
    /\ op.args.schema = Some([props |-> Some(ButtonSchemaProps)])
    /\ op.args.props = << <<"count", JsString("invalid")>>, <<"variant", JsBoolean("true")>> >>
    /\ Len(result.errors) = 3
    /\ result.errors[2].prop = "variant"
    /\ result.errors[2].expected = <<JsString("default"), JsString("destructive")>>

\* C15: every property the schema marks required that is not supplied has
\* an error naming it, and the result is invalid; a required property that
\* is supplied has no missing-property error.
C15_RequiredMissingIsError ==
    (op.name = "validatePropsAgainstSchema" /\ hasPropsSection(op.args.schema)) =>
        LET defs == op.args.schema[1].props[1]
        IN \A d \in 1..Len(defs) :
              defs[d][2].required =>
                  IF supplied(op.args.props, defs[d][1])
                  THEN \A k \in 1..Len(result.errors) :
                          result.errors[k].prop = defs[d][1] => result.errors[k].error # "Required prop is missing"
                  ELSE /\ \E k \in 1..Len(result.errors) :
                             /\ result.errors[k].prop = defs[d][1]
                             /\ result.errors[k].error = "Required prop is missing"
                       /\ ~result.valid

\* C16: validating any property set when no schema is loaded (the schema
\* reference is absent or 'pending', or the schema has no props section)
\* yields valid = true, an empty errors list and an empty warnings list.
C16_NoSchemaIsTriviallyValid ==
    /\ (op.name = "validatePropsAgainstSchema" /\ ~hasPropsSection(op.args.schema)) =>
          result = [valid |-> TRUE, errors |-> <<>>, warnings |-> <<>>]
    /\ (op.name = "validateProps" /\ getComponent(op.args.name) # NoComponent
            /\ ~present(catalog[getComponent(op.args.name)].schema)) =>
          /\ result.valid
          /\ result.errors = <<>>
          /\ "warnings" \in DOMAIN result
          /\ result.warnings = <<>>

(***************************************************************************)
(* Specification SpecTokens: class strings of a few space-separated        *)
(* tokens are checked by validateDesignTokens.                             *)
(***************************************************************************)
MaxTokens == 2

ClassTokens ==
    { <<"b", "g", "-", "b", "l", "u", "e", "-", "5", "0", "0">>,
      <<"b", "g", "-", "p", "r", "i", "m", "a", "r", "y">>,
      <<"t", "e", "x", "t", "-", "r", "e", "d", "-", "6", "0", "0">>,
      <<"t", "e", "x", "t", "-", "p", "-", "f", "g">>,
      <<"b", "o", "r", "d", "e", "r", "-", "a", "1", "_", "b", "-", "0", "7", "x">>,
      <<"w", "-", "[", "1", "0", "p", "x", "]">>,
      <<"[", "]">>,
      <<"h", ":", "b", "g", "-", "b", "-", "5">>,
      <<"b", "g", "-", "i", "n", "h", "e", "r", "i", "t">>,
      <<"[", "&", ">", "[", "a", "]", "]">>,
      <<"b", "g", "-", "-", "5">>,
      <<"p", "-", "4">> }

RECURSIVE joinTokens(_)
\* the tokens separated by one space
joinTokens(tokens) ==
    IF Len(tokens) = 0 THEN <<>>
    ELSE IF Len(tokens) = 1 THEN tokens[1]
    ELSE tokens[1] \o <<" ">> \o joinTokens(Tail(tokens))

ClassNames == {joinTokens(t) : t \in UNION {[1..k -> ClassTokens] : k \in 0..MaxTokens}}

ValidateDesignTokens ==
    \E className \in ClassNames :
        Call("validateDesignTokens", className, validateDesignTokens(className))

InitTokens == InitWith({<<>>, ValidateCatalog})

NextTokens ==
    \/ Construct
    \/ ValidateDesignTokens
    \/ Return

SpecTokens == InitTokens /\ [][NextTokens]_vars

\* s[i..j] is one whitespace-separated token of s
isTokenAt(s, i, j) ==
    /\ 1 <= i /\ i <= j /\ j <= Len(s)
    /\ \A k \in i..j : s[k] # " "
    /\ (i = 1 \/ s[i - 1] = " ")
    /\ (j = Len(s) \/ s[j + 1] = " ")

\* t is (bg|text|border)-<word>-<number>
isColorToken(t) ==
    \E p \in {BG, TEXT, BORDER} :
        \E d \in 1..Len(t) :
            /\ Len(p) + 2 < d /\ d < Len(t)
            /\ SubSeq(t, 1, Len(p)) = p
            /\ t[Len(p) + 1] = "-"
            /\ t[d] = "-"
            /\ \A k \in (Len(p) + 2)..(d - 1) : t[k] \in WordChars
            /\ \A k \in (d + 1)..Len(t) : t[k] \in Digits

\* s[i..j] is a bracket-delimited value: it opens with a '[' outside any
\* open bracket and closes with the next ']', with something in between
isBracketValueAt(s, i, j) ==
    /\ 1 <= i /\ i + 1 < j /\ j <= Len(s)
    /\ s[i] = "[" /\ s[j] = "]"
    /\ \A k \in (i + 1)..(j - 1) : s[k] # "]"
    /\ \A k \in 1..(i - 1) : s[k] = "[" => \E m \in (k + 1)..(i - 1) : s[m] = "]"

\* C17: validateDesignTokens collects every token of the form
\* (bg|text|border)-<word>-<number> and every bracket-delimited value into
\* hardCodedValues, gives one warning per collected value, and is valid iff
\* hardCodedValues is empty; 'bg-blue-500' is invalid and collected,
\* 'bg-primary' is valid with nothing collected.
C17_HardCodedValuesCollected ==
    op.name = "validateDesignTokens" =>
        LET s == op.args
        IN /\ \A i, j \in 1..Len(s) :
                 (isTokenAt(s, i, j) /\ isColorToken(SubSeq(s, i, j))) =>
                     SubSeq(s, i, j) \in Range(result.hardCodedValues)
           /\ \A i, j \in 1..Len(s) :
                 isBracketValueAt(s, i, j) => SubSeq(s, i, j) \in Range(result.hardCodedValues)
           /\ Len(result.warnings) = Len(result.hardCodedValues)
           /\ \A k \in 1..Len(result.warnings) : result.warnings[k][2] = result.hardCodedValues[k]
           /\ result.valid <=> (result.hardCodedValues = <<>>)
           /\ s = <<"b", "g", "-", "b", "l", "u", "e", "-", "5", "0", "0">> => (~result.valid /\ result.hardCodedValues = <<s>>)
           /\ s = <<"b", "g", "-", "p", "r", "i", "m", "a", "r", "y">> => (result.valid /\ result.hardCodedValues = <<>>)

\* a class string with a hard-coded colour and an arbitrary value: both
\* are collected, the colour first
C17_Witness ==
    /\ op.name = "validateDesignTokens"
    /\ op.args = <<"w", "-", "[", "1", "0", "p", "x", "]", " ", "t", "e", "x", "t", "-", "r", "e", "d", "-", "6", "0", "0">>
    /\ ~result.valid
    /\ result.hardCodedValues = <<<<"t", "e", "x", "t", "-", "r", "e", "d", "-", "6", "0", "0">>, <<"[", "1", "0", "p", "x", "]">>>>
    /\ Len(result.warnings) = 2

(***************************************************************************)
(* Specification SpecGenerate: import lines and usage text are generated   *)
(* for records whose paths have the source root and an extension in        *)
(* different places.                                                       *)
(***************************************************************************)
MaxGenerateCatalog == 2

GenerateRecords ==
    { ComponentMetadata(<<"B", "u", "t", "t", "o", "n">>, "atom", <<"s", "r", "c", "/", "c", "o", "m", "p", "o", "n", "e", "n", "t", "s", "/", "u", "i", "/", "b", "u", "t", "t", "o", "n", ".", "t", "s", "x">>, Null, Null, <<TagForm>>, "simple", DescA, FALSE, "pending"),
      ComponentMetadata(<<"U", "s", "e">>, "atom", <<"s", "r", "c", "/", "h", "o", "o", "k", "s", "/", "u", "s", "e", ".", "t", "s">>, Null, Null, <<TagForm>>, "simple", DescA, FALSE, "pending"),
      ComponentMetadata(<<"K", "i", "t">>, "atom", <<"s", "r", "c", "/", "m", "y", ".", "t", "s", "x", "-", "k", "i", "t", "/", "a", ".", "t", "s", "x">>, Null, Null, <<TagForm>>, "simple", DescA, FALSE, "pending"),
      ComponentMetadata(<<"L", "i", "b">>, "atom", <<"s", "r", "c", "/", "l", "i", "b", ".", "t", "s", "q", "/", "b", ".", "t", "s">>, Null, Null, <<TagForm>>, "simple", DescA, FALSE, "pending"),
      ComponentMetadata(<<"A", "p", "p">>, "atom", <<"a", "p", "p", "/", "s", "r", "c", "/", "c", ".", "t", "s", "x">>, Null, Null, <<TagForm>>, "simple", DescA, FALSE, "pending") }

GenerateNames == {r.name : r \in GenerateRecords} \cup {<<"X", "y", "z">>}

GenerateImport ==
    \E n \in GenerateNames : Call("generateImport", n, AgentAPI_generateImport(n))

ToolGenerateImport ==
    \E n \in GenerateNames, includeTypes \in {None, Some(TRUE), Some(FALSE)} :
        Call("generate_import", [name |-> n, includeTypes |-> includeTypes],
             tool_generateImport([name |-> n, includeTypes |-> includeTypes]))

InitGenerate == InitWith(Catalogs(GenerateRecords, MaxGenerateCatalog))

NextGenerate ==
    \/ Construct
    \/ GenerateImport
    \/ ToolGenerateImport
    \/ Return

SpecGenerate == InitGenerate /\ [][NextGenerate]_vars

\* path is 'src/' + P + extension
isSourcePath(path, P, extension) == path = SRC_SLASH \o P \o extension

\* the P of a path under the source root that ends in extension
middleOf(path, extension) == SubSeq(path, Len(SRC_SLASH) + 1, Len(path) - Len(extension))

\* C18: for every record whose path is 'src/' + P + '.tsx' or
\* 'src/' + P + '.ts', generateImport returns exactly
\* "import { <name> } from '@/P'", whatever P contains.
C18_ImportRewritesPrefixAndExtensionOnly ==
    (op.name = "generateImport" /\ getComponent(op.args) # NoComponent) =>
        LET r == catalog[getComponent(op.args)]
        IN \A extension \in {DOT_TSX, DOT_TS} :
              (startsWithAt(r.path, 1, SRC_SLASH) /\ endsWith(r.path, extension)
                  /\ isSourcePath(r.path, middleOf(r.path, extension), extension)) =>
                  result = <<"i", "m", "p", "o", "r", "t", " ", "{", " ">> \o r.name \o <<" ", "}", " ", "f", "r", "o", "m", " ", "'", "@", "/">> \o middleOf(r.path, extension) \o <<"'">>

\* C19: the generate_import tool returns a typeImport iff includeTypes is
\* true, and then typeImport imports <name>Props from the same module path
\* as the main import line and as the path field, for every catalog path.
C19_TypeImportSamePath ==
    (op.name = "generate_import" /\ errorOf(result) = Null) =>
        LET r == catalog[getComponent(op.args.name)]
        IN /\ result.typeImport # None <=> op.args.includeTypes = Some(TRUE)
           /\ result.typeImport # None =>
                 /\ result.typeImport[1]
                        = <<"i", "m", "p", "o", "r", "t", " ", "t", "y", "p", "e", " ", "{", " ">> \o r.name \o <<"P", "r", "o", "p", "s", " ", "}", " ", "f", "r", "o", "m", " ", "'">> \o result.path \o <<"'">>
                 /\ result.import = <<"i", "m", "p", "o", "r", "t", " ", "{", " ">> \o r.name \o <<" ", "}", " ", "f", "r", "o", "m", " ", "'">> \o result.path \o <<"'">>

(***************************************************************************)
(* Specification SpecUsage: usage text is generated for property maps      *)
(* whose values are strings, booleans, numbers and arrays.                 *)
(***************************************************************************)
MaxUsageProps == 2

UsageKeys == {<<"v", "a", "r", "i", "a", "n", "t">>, <<"s", "i", "z", "e">>, <<"d", "i", "s", "a", "b", "l", "e", "d">>}

\* a value of a property: text for a string, flag for a boolean, num for a
\* number and items for an array of numbers
UsageString(text) == [type |-> "string", text |-> text, flag |-> FALSE, num |-> 0, items |-> <<>>]
UsageBoolean(flag) == [type |-> "boolean", text |-> <<>>, flag |-> flag, num |-> 0, items |-> <<>>]
UsageNumber(num) == [type |-> "number", text |-> <<>>, flag |-> FALSE, num |-> num, items |-> <<>>]
UsageArray(items) == [type |-> "object", text |-> <<>>, flag |-> FALSE, num |-> 0, items |-> items]

UsageValues ==
    { UsageString(<<"l", "g">>), UsageString(<<>>), UsageBoolean(TRUE), UsageBoolean(FALSE),
      UsageNumber(0), UsageNumber(0 - 12), UsageArray(<<1, 20>>), UsageArray(<<>>) }

\* the property maps with at most n properties, in every insertion order
UsageProps(n) ==
    {p \in UNION {[1..k -> UsageKeys \X UsageValues] : k \in 0..n} :
        \A i, j \in 1..Len(p) : i # j => p[i][1] # p[j][1]}

GenerateUsage ==
    \E n \in {NameButton, <<"X", "y", "z">>}, props \in UsageProps(MaxUsageProps) :
        Call("generateUsage", [name |-> n, props |-> props], AgentAPI_generateUsage(n, props))

InitUsage == InitWith({ValidateCatalog})

NextUsage ==
    \/ Construct
    \/ GenerateUsage
    \/ Return

SpecUsage == InitUsage /\ [][NextUsage]_vars

\* the JSON text of the values that are neither strings nor booleans
jsonTextOf(value) ==
    IF value.type = "number" THEN (IF value.num = 0 THEN <<"0">> ELSE <<"-", "1", "2">>)
    ELSE (IF value.items = <<>> THEN <<"[", "]">> ELSE <<"[", "1", ",", "2", "0", "]">>)

\* what the claim says one property is rendered as, with the space before it
renderedAs(key, value) ==
    IF value.type = "string" THEN <<" ">> \o key \o <<"=", "\"">> \o value.text \o <<"\"">>
    ELSE IF value.type = "boolean" THEN (IF value.flag THEN <<" ">> \o key ELSE <<>>)
    ELSE <<" ">> \o key \o <<"=", "{">> \o jsonTextOf(value) \o <<"}">>

RECURSIVE renderedAll(_, _)
\* the renderings of the properties from position i on, in map order
renderedAll(props, i) ==
    IF i > Len(props) THEN <<>>
    ELSE renderedAs(props[i][1], props[i][2]) \o renderedAll(props, i + 1)

SearchRecords ==
    { ComponentMetadata(<<"T", "a", "b">>, "atom", PathA, Null, Null, <<<<"u", "i">>>>, "simple", <<"n", "a", "v">>, FALSE, "pending"),
      ComponentMetadata(<<"t", "A", "B">>, "atom", PathA, Null, Null, <<>>, "simple", <<"x">>, FALSE, "pending"),
      ComponentMetadata(<<"N", "a", "v">>, "molecule", PathA, Null, Null, <<<<"u", "i">>, <<"T", "a", "b">>>>, "simple", <<"B", "a", "r">>, FALSE, "pending"),
      ComponentMetadata(<<"B", "a", "r">>, "molecule", PathA, Null, Null, <<>>, "simple", <<"a", " ", "T", "a", "b">>, FALSE, "pending"),
      ComponentMetadata(<<"T", "a", "b", "s">>, "organism", PathA, Null, Null, <<<<"t", "a", "b", "s">>>>, "simple", <<"t", "a", "b", "s">>, FALSE, "pending") }

SearchQueries ==
    { <<>>, <<"t", "a", "b">>, <<"T", "A", "B">>, <<"T", "a", "b">>, <<"a">>, <<"u", "i">>, <<"U", "i">>, <<"z", "z">> }

SearchComponents ==
    \E q \in SearchQueries : Call("searchComponents", [query |-> q], AgentAPI_searchComponents(q))

IndexSearch ==
    \E q \in SearchQueries : Call("search", [query |-> q], Index_search(q))

ToolSearchComponents ==
    \E q \in SearchQueries, l \in Limits :
        Call("search_components", [query |-> q, limit |-> l], tool_searchComponents([query |-> q, limit |-> l]))

McpSearchComponents ==
    \E q \in SearchQueries, l \in Limits :
        Call("mcp_search_components", [query |-> q, limit |-> l], mcp_searchComponents([query |-> q, limit |-> l]))

InitSearch == InitWith(Catalogs(SearchRecords, MaxSearchCatalog) \ {<<>>})

NextSearch ==
    \/ Construct
    \/ SearchComponents
    \/ IndexSearch
    \/ ToolSearchComponents
    \/ McpSearchComponents
    \/ Return

SpecSearch == InitSearch /\ [][NextSearch]_vars

\* the lowercased query occurs in the lowercased name, description or a tag of c
isKeywordHit(c, q) ==
    LET lq == toLowerCase(q)
        r == catalog[c]
    IN \/ includes(toLowerCase(r.name), lq)
       \/ includes(toLowerCase(r.description), lq)
       \/ \E tag \in Range(r.tags) : includes(toLowerCase(tag), lq)

\* C5: on both search implementations, the result is exactly the records
\* hit by the query, and it is the same for the query in lower case.
C5_SearchReturnsExactlyTheHits ==
    /\ (op.name = "searchComponents" /\ op.args.query # <<>>) =>
          /\ Range(result) = {c \in 1..Len(catalog) : isKeywordHit(c, op.args.query)}
          /\ result = AgentAPI_searchComponents(toLowerCase(op.args.query))
    /\ (op.name = "search" /\ op.args.query # <<>>) =>
          /\ Range(result) = {c \in 1..Len(catalog) : isKeywordHit(c, op.args.query)}
          /\ result = Index_search(toLowerCase(op.args.query))

\* C6: a search with an empty query is answered with an input-validation
\* error on every path, never with search results.
C6_EmptyQueryRejected ==
    (op.name \in {"searchComponents", "search", "search_components", "mcp_search_components"}
        /\ op.args.query = <<>>) =>
            (op.name = "mcp_search_components" /\ "error" \in DOMAIN result)

\* the positions of the records hit by q, in catalog order, cut at n
firstHits(q, n) ==
    slice(filterIdx(getAllComponents, {c \in 1..Len(catalog) : isKeywordHit(c, q)}, 1), n)

\* C7: each result of the search_components tool carries one relevance tag,
\* 'name' if the query hits the name, else 'tag' if it hits a tag, else
\* 'description'; the results are the hits in catalog order (cut at the
\* limit), whatever their relevance.
C7_RelevancePriority ==
    op.name = "search_components" =>
        LET q == op.args.query
            lq == toLowerCase(q)
            hits == firstHits(q, IF op.args.limit \in {None, Some(0)} THEN 10 ELSE op.args.limit[1])
        IN /\ Len(result.results) = Len(hits)
           /\ result.count = Len(hits)
           /\ \A k \in 1..Len(hits) :
                 LET r == catalog[hits[k]]
                     out == result.results[k]
                 IN /\ out.name = r.name
                    /\ out.description = r.description
                    /\ out.category = r.category
                    /\ out.relevance \in {"name", "tag", "description"}
                    /\ out.relevance = "name" <=> includes(toLowerCase(r.name), lq)
                    /\ out.relevance = "tag" <=>
                          /\ ~includes(toLowerCase(r.name), lq)
                          /\ \E tag \in Range(r.tags) : includes(toLowerCase(tag), lq)

\* one search returned, in catalog order, a record reported as 'tag', then
\* one reported as 'name' although its tag and description match too, then
\* one reported as 'description'
C7_Witness ==
    /\ op.name = "search_components"
    /\ op.args.query = <<"T", "A", "B">>
    /\ Len(result.results) = 3
    /\ result.results[1].relevance = "tag"
    /\ result.results[2].relevance = "name"
    /\ result.results[2].name = <<"T", "a", "b", "s">>
    /\ result.results[3].relevance = "description"

(***************************************************************************)
(* Specification SpecSuggest: get_component on catalogs long enough for    *)
(* more than five names to resemble the name asked for.                    *)
(***************************************************************************)
SuggestRecords ==
    { ComponentMetadata(<<"T", "a", "b", "s">>, "atom", PathA, Null, Null, <<>>, "simple", DescA, FALSE, "pending"),
      ComponentMetadata(<<"T", "a", "b", "l", "e">>, "atom", PathA, Null, Null, <<>>, "simple", DescA, FALSE, "pending"),
      ComponentMetadata(<<"M", "e", "n", "u">>, "molecule", PathA, Null, Null, <<>>, "simple", DescA, FALSE, "pending") }

SuggestNames ==
    { <<"T", "a", "b">>, <<"t", "A", "B", "L", "E", "T">>, <<"T", "u", "b", "s">>, <<"M", "e", "n", "u", "s">>,
      <<"X", "y", "z", "w", "v">>, <<"t", "a", "b", "s">> }

SuggestGetComponent ==
    \E n \in SuggestNames : Call("get_component", [name |-> n], tool_getComponent([name |-> n]))

InitSuggest == InitWith(Catalogs(SuggestRecords, MaxSuggestCatalog))

NextSuggest ==
    \/ Construct
    \/ SuggestGetComponent
    \/ Return

SpecSuggest == InitSuggest /\ [][NextSuggest]_vars

RECURSIVE withinEdits(_, _, _)
\* a can be turned into b by at most k insertions, deletions and
\* substitutions of one character: the Levenshtein distance is at most k
withinEdits(a, b, k) ==
    IF k < 0 THEN FALSE
    ELSE IF a = <<>> THEN Len(b) <= k
    ELSE IF b = <<>> THEN Len(a) <= k
    ELSE \/ Head(a) = Head(b) /\ withinEdits(Tail(a), Tail(b), k)
         \/ withinEdits(Tail(a), Tail(b), k - 1)
         \/ withinEdits(Tail(a), b, k - 1)
         \/ withinEdits(a, Tail(b), k - 1)

\* the name of record c resembles the name n that was asked for
resembles(c, n) ==
    LET cName == toLowerCase(catalog[c].name)
        asked == toLowerCase(n)
    IN includes(cName, asked) \/ includes(asked, cName) \/ withinEdits(cName, asked, 3)

resembling(n) == {c \in 1..Len(catalog) : resembles(c, n)}

\* C8: the suggestions of a failed lookup are the names of the first (at
\* most 5) records, in catalog order, whose name contains the name asked
\* for, is contained in it, or is within Levenshtein distance 3 of it,
\* ignoring case; every suggestion is the name of a catalog record.
C8_SuggestionsAreFirstFiveResembling ==
    (op.name = "get_component" /\ errorOf(result) = "COMPONENT_NOT_FOUND") =>
        LET n == op.args.name
            M == resembling(n)
            sugg == result.suggestions
        IN /\ ~nameHasRecord(n)
           /\ Len(sugg) = (IF Cardinality(M) < 5 THEN Cardinality(M) ELSE 5)
           /\ \A k \in 1..Len(sugg) :
                 \E c \in M : /\ Cardinality({d \in M : d < c}) = k - 1
                              /\ sugg[k] = catalog[c].name
           /\ \A k \in 1..Len(sugg) : isCatalogName(sugg[k])

\* six records resemble the name asked for, one of them only by edit
\* distance, and five suggestions come back
C8_Witness ==
    /\ op.name = "get_component"
    /\ errorOf(result) = "COMPONENT_NOT_FOUND"
    /\ Cardinality(resembling(op.args.name)) = 6
    /\ Len(result.suggestions) = 5
    /\ \E k \in 1..5 :
          /\ ~includes(toLowerCase(result.suggestions[k]), toLowerCase(op.args.name))
          /\ ~includes(toLowerCase(op.args.name), toLowerCase(result.suggestions[k]))

(***************************************************************************)
(* Specification SpecUsageTool: the generate_usage tool is called with and *)
(* without properties and children text.                                   *)
(***************************************************************************)
MaxToolProps == 1

UsageToolValues ==
    { UsageString(<<"l", "g">>), UsageString(<<"a", "/", ">", "b">>), UsageBoolean(TRUE),
      UsageBoolean(FALSE), UsageNumber(3), UsageArray(<<1>>) }

UsageToolProps(n) ==
    {p \in UNION {[1..k -> UsageKeys \X UsageToolValues] : k \in 0..n} :
        \A i, j \in 1..Len(p) : i # j => p[i][1] # p[j][1]}

ChildrenTexts ==
    { None, Some(<<>>), Some(<<"D", "e", "l">>), Some(<<"a", " ", "<", " ", "b">>), Some(<<"$", "&">>) }

GenerateUsageInputs ==
    [ name : {NameButton, <<"b", "u", "t", "t", "o", "n">>, <<"X", "y", "z">>},
      props : {None} \cup {Some(p) : p \in UsageToolProps(MaxToolProps)},
      children : ChildrenTexts ]

ToolGenerateUsage ==
    \E input \in GenerateUsageInputs : Call("generate_usage", input, tool_generateUsage(input))

InitUsageTool == InitWith({ValidateCatalog})

NextUsageTool ==
    \/ Construct
    \/ ToolGenerateUsage
    \/ Return

SpecUsageTool == InitUsageTool /\ [][NextUsageTool]_vars

\* C21: with children text the generate_usage tool returns the opening tag
\* with every rendered property unchanged, then the children text, then
\* '</Name>'; without children it returns the self-closing tag.
C21_ChildrenWrapTheOpeningTag ==
    (op.name = "generate_usage" /\ getComponent(op.args.name) # NoComponent) =>
        LET name == catalog[getComponent(op.args.name)].name
            props == IF op.args.props = None THEN <<>> ELSE op.args.props[1]
            opening == <<"<">> \o name \o renderedAll(props, 1) \o <<" ">>
        IN /\ op.args.children = None => result.usage = opening \o <<"/", ">">>
           /\ (op.args.children # None /\ op.args.children[1] # <<>>) =>
                 result.usage = opening \o <<">">> \o op.args.children[1] \o <<"<", "/">> \o name \o <<">">>

(***************************************************************************)
(* Specification SpecAlternatives: alternatives are asked for over         *)
(* catalogs whose records share none, one or two tags.                     *)
(***************************************************************************)
MaxAlternativesCatalog == 3

TagX == <<"x">>
TagY == <<"y">>
TagZ == <<"z">>

Tagged(name, category, tags) ==
    ComponentMetadata(name, category, PathA, Null, Null, tags, "simple", DescA, FALSE, "pending")

AlternativesRecords ==
    { Tagged(<<"A", "b">>, "atom", <<TagX, TagY>>),
      Tagged(<<"C", "d">>, "molecule", <<TagX>>),
      Tagged(<<"E", "f">>, "organism", <<TagY, TagZ, TagX>>),
      Tagged(<<"G", "h">>, "atom", <<TagZ>>),
      Tagged(<<"I", "j">>, "atom", <<>>) }

\* seven records sharing a tag with the first one
LongCatalog ==
    << Tagged(<<"A", "b">>, "atom", <<TagX, TagY>>),
       Tagged(<<"K", "a">>, "atom", <<TagX>>),
       Tagged(<<"K", "b">>, "molecule", <<TagY>>),
       Tagged(<<"K", "c">>, "atom", <<TagZ, TagX>>),
       Tagged(<<"K", "d">>, "atom", <<TagY, TagX>>),
       Tagged(<<"K", "e">>, "organism", <<TagX>>),
       Tagged(<<"K", "f">>, "atom", <<TagX, TagZ, TagY>>),
       Tagged(<<"K", "g">>, "atom", <<TagY>>) >>

AlternativesNames ==
    { <<"A", "b">>, <<"a", "b">>, <<"C", "d">>, <<"e", "F">>, <<"K", "d">>, <<"X", "y">> }

SuggestAlternatives ==
    \E n \in AlternativesNames : Call("suggestAlternatives", n, suggestAlternatives(n))

InitAlternatives == InitWith(Catalogs(AlternativesRecords, MaxAlternativesCatalog) \cup {LongCatalog})

NextAlternatives ==
    \/ Construct
    \/ SuggestAlternatives
    \/ Return

SpecAlternatives == InitAlternatives /\ [][NextAlternatives]_vars

\* the number of tags of record c that record r carries too
sharedTags(c, r) ==
    Cardinality({t \in {catalog[c].tags[k] : k \in 1..Len(catalog[c].tags)} : arrayIncludes(catalog[r].tags, t)})

\* the records other than r that share a tag with r
alternativesOf(r) == {c \in 1..Len(catalog) : c # r /\ sharedTags(c, r) > 0}

\* c comes before d: more shared tags, or as many and earlier in the catalog
rankedBefore(c, d, r) ==
    \/ sharedTags(c, r) > sharedTags(d, r)
    \/ sharedTags(c, r) = sharedTags(d, r) /\ c < d

\* C22: for any casing of a cataloged name, suggestAlternatives returns the
\* names of the (at most 5) best-ranked records other than the named record
\* that share a tag with it, by descending number of shared tags and then in
\* catalog order; the named record is never among them.
C22_AlternativesAreOtherRecordsByOverlap ==
    (op.name = "suggestAlternatives" /\ getComponent(op.args) # NoComponent) =>
        LET r == getComponent(op.args)
            A == alternativesOf(r)
        IN /\ Len(result) = (IF Cardinality(A) < 5 THEN Cardinality(A) ELSE 5)
           /\ \A k \in 1..Len(result) :
                 \E c \in A : /\ Cardinality({d \in A : rankedBefore(d, c, r)}) = k - 1
                              /\ result[k] = catalog[c].name
           /\ \A k \in 1..Len(result) : result[k] # catalog[r].name

(***************************************************************************)
(* Specification SpecFrame: every kind of query is served, in any order,    *)
(* each leaving behind the components array and the tag index it computes. *)
(***************************************************************************)
MaxFrameCatalog == 3

\* a query is received and answered, leaving this.components and the tag
\* index as the query leaves them
Query(name, args, res, components, tags) ==
    /\ status = "serving"
    /\ op = NoCall
    /\ op' = [name |-> name, args |-> args]
    /\ result' = res
    /\ catalog' = components
    /\ tagIndex' = tags
    /\ UNCHANGED <<componentMap, nameIndex, categoryIndex, status, invoiceVars, chatVars>>

tagsFilter(tags) ==
    [ category |-> None, tags |-> Some(tags), complexity |-> None, migrationStatus |-> None,
      hasSchema |-> None, hasDocumentation |-> None, hasTesting |-> None ]

FrameDiscoverComponents ==
    \E t \in {<<TagX>>, <<TagZ, TagY>>} :
        Query("discoverComponents", t, discoverComponents(Some(tagsFilter(t))), catalog, tagIndex)

FrameSearchComponents ==
    \E q \in {<<"a">>, <<"X">>} :
        Query("searchComponents", q, AgentAPI_searchComponents(q), catalog, tagIndex)

FrameGetComponent ==
    \E n \in {<<"a", "b">>, <<"X", "y">>} : Query("getComponent", n, getComponent(n), catalog, tagIndex)

FrameGetSuggestions ==
    \E n \in {<<"A", "c">>} : Query("getSuggestions", n, getSuggestions(n), catalog, tagIndex)

FrameSuggestAlternatives ==
    \E n \in {<<"A", "b">>, <<"c", "d">>} :
        Query("suggestAlternatives", n, suggestAlternatives(n), suggestAlternatives_components(n), tagIndex)

FrameFindByTags ==
    \E t \in {<<TagX, TagY>>, <<TagZ>>} :
        Query("findByTags", t, findByTags(t), catalog, findByTags_tagIndex(t))

FrameFindByTag == Query("findByTag", TagX, findByTag(TagX), catalog, tagIndex)

FrameFindByCategory == Query("findByCategory", "atom", findByCategory("atom"), catalog, tagIndex)

FrameGetStats == Query("getStats", <<>>, AgentAPI_getStats, catalog, tagIndex)

FrameGenerateImport ==
    \E n \in {<<"A", "b">>} : Query("generateImport", n, AgentAPI_generateImport(n), catalog, tagIndex)

FrameValidateDesignTokens ==
    \E className \in {<<"b", "g", "-", "r", "e", "d", "-", "5">>} :
        Query("validateDesignTokens", className, validateDesignTokens(className), catalog, tagIndex)

InitFrame == InitWith(Catalogs(AlternativesRecords, MaxFrameCatalog))

NextFrame ==
    \/ Construct
    \/ FrameDiscoverComponents
    \/ FrameSearchComponents
    \/ FrameGetComponent
    \/ FrameGetSuggestions
    \/ FrameSuggestAlternatives
    \/ FrameFindByTags
    \/ FrameFindByTag
    \/ FrameFindByCategory
    \/ FrameGetStats
    \/ FrameGenerateImport
    \/ FrameValidateDesignTokens
    \/ Return

SpecFrame == InitFrame /\ [][NextFrame]_vars

\* the registry is the one the build makes from the record list
asBuilt ==
    /\ componentMap = AgentAPI_constructor(catalog, 1, <<>>)
    /\ <<nameIndex, categoryIndex, tagIndex>> = buildIndices(catalog, 1, << <<>>, <<>>, <<>> >>)

\* C23: no query changes the record list or an index: once the build is
\* done, every step leaves the record list, the name map and the three
\* indices with the same content and order, and they stay what the build
\* made of the record list, so that a query's result does not depend on the
\* queries answered before it.
C23_QueriesLeaveRegistryUnchanged ==
    /\ [][status = "serving" => UNCHANGED registryVars]_vars
    /\ [](status = "serving" => asBuilt)

\* alternatives were returned in an order other than catalog order, and the
\* catalog and the tag index are still as built
C23_Witness ==
    /\ op.name = "suggestAlternatives"
    /\ Len(result) >= 2
    /\ \E c, d \in 1..Len(catalog) : c < d /\ result[1] = catalog[d].name /\ result[2] = catalog[c].name
    /\ asBuilt

(***************************************************************************)
(* Specification SpecServer: tool calls with unknown names, components     *)
(* without schema or documentation and failing imports; an exception that  *)
(* leaves a handler called without the server's callback ends the process. *)
(***************************************************************************)
ServerNames == {NameButton, <<"i", "n", "p">>, <<"N", "a", "v">>, <<"C", "r", "d">>, <<"X", "y", "z">>}

\* a tool call is answered with outcome; an exception nobody caught ends
\* the process
Serve(name, args, outcome) ==
    /\ status = "serving"
    /\ op = NoCall
    /\ op' = [name |-> name, args |-> args]
    /\ result' = outcome
    /\ status' = IF threw(outcome) THEN "crashed" ELSE "serving"
    /\ UNCHANGED <<catalog, componentMap, nameIndex, categoryIndex, tagIndex, invoiceVars, chatVars>>

ServerGetComponent ==
    \E n \in ServerNames :
        Serve("get_component", [name |-> n], toolCallback(tool_getComponent([name |-> n])))

ServerSearchComponents ==
    \E q \in {<<"b", "u", "t">>, <<"z", "z">>}, limit \in {None, Some(1)} :
        Serve("search_components", [query |-> q, limit |-> limit],
              toolCallback(tool_searchComponents([query |-> q, limit |-> limit])))

ServerDiscoverComponents ==
    \E input \in [ category : {None, Some("atom")}, tags : {None, Some(<<TagForm>>)}, complexity : {None},
                   hasSchema : {None, Some(TRUE)}, hasDocumentation : {None}, limit : {None, Some(1)} ] :
        Serve("discover_components", input, toolCallback(tool_discoverComponents(input)))

ServerLoadSchema ==
    \E n \in ServerNames, importOk \in BOOLEAN :
        Serve("load_schema", [name |-> n, importOk |-> importOk], tool_loadSchema([name |-> n], importOk))

ServerLoadDocumentation ==
    \E n \in ServerNames : Serve("load_documentation", [name |-> n], tool_loadDocumentation([name |-> n]))

ServerGenerateImport ==
    \E n \in ServerNames, includeTypes \in {None, Some(TRUE)} :
        Serve("generate_import", [name |-> n, includeTypes |-> includeTypes],
              tool_generateImport([name |-> n, includeTypes |-> includeTypes]))

ServerGenerateUsage ==
    \E n \in ServerNames, props \in UsageToolProps(MaxToolProps), children \in {None, Some(<<"D", "e", "l">>)} :
        Serve("generate_usage", [name |-> n, props |-> Some(props), children |-> children],
              tool_generateUsage([name |-> n, props |-> Some(props), children |-> children]))

InitServer == InitWith({<<>>, ValidateCatalog})

NextServer ==
    \/ Construct
    \/ ServerGetComponent
    \/ ServerSearchComponents
    \/ ServerDiscoverComponents
    \/ ServerLoadSchema
    \/ ServerLoadDocumentation
    \/ ServerGenerateImport
    \/ ServerGenerateUsage
    \/ Return

SpecServer == InitServer /\ [][NextServer]_vars

\* what the caller of a tool receives: the value a registered tool's text
\* content encodes, or the value a handler returned
received(r) == IF "content" \in DOMAIN r THEN r.content[1].text ELSE r

\* structured data: a result, or an object with error and message, and not
\* an exception
structured(r) ==
    /\ ~threw(r)
    /\ errorOf(r) # "<exception>"
    /\ "error" \in DOMAIN r => "message" \in DOMAIN r

\* C24: every tool call ends by handing structured data to the caller, a
\* result or an object with error and message; no exception leaves the tool
\* layer, and the server is still serving after a failed call.
C24_ToolCallsReturnStructuredData ==
    /\ status # "crashed"
    /\ op # NoCall => structured(received(result))

\* a component without schema was asked for its schema, the tool answered
\* with an error object and the server is serving
C24_Witness ==
    /\ op.name = "load_schema"
    /\ getComponent(op.args.name) # NoComponent
    /\ errorOf(result) = "SCHEMA_NOT_AVAILABLE"
    /\ "message" \in DOMAIN result
    /\ status = "serving"

(***************************************************************************)
(* Specification SpecImportPath: import lines are generated and import     *)
(* paths validated for records whose file name is or is not the lower-case *)
(* component name.                                                         *)
(***************************************************************************)
MaxImportCatalog == 2

Located(name, path) ==
    ComponentMetadata(name, "atom", path, Null, Null, <<>>, "simple", DescA, FALSE, "pending")

ImportRecords ==
    { Located(<<"B", "t", "n">>, <<"s", "r", "c", "/", "c", "o", "m", "p", "o", "n", "e", "n", "t", "s", "/", "u", "i", "/", "b", "t", "n", ".", "t", "s", "x">>),
      Located(<<"U", "s", "e">>, <<"s", "r", "c", "/", "h", "/", "u", "s", "e", ".", "t", "s">>),
      Located(<<"N", "a", "v", "B", "a", "r">>, <<"s", "r", "c", "/", "u", "i", "/", "n", "a", "v", "-", "b", "a", "r", ".", "t", "s", "x">>),
      Located(<<"T", "a", "b">>, <<"s", "r", "c", "/", "u", "i", "/", "T", "a", "b", ".", "t", "s", "x">>) }

ImportNames == {r.name : r \in ImportRecords} \cup {<<"b", "t", "n">>, <<"X", "y", "z">>}

ImportPaths ==
    {expectedPath(r.path) : r \in ImportRecords}
        \cup {getImportPath(r.path) : r \in ImportRecords}
        \cup {<<"@", "/", "x">>, <<"b", "t", "n">>}

ImportGenerateImport ==
    \E n \in ImportNames : Call("generateImport", n, AgentAPI_generateImport(n))

ValidateImportPath ==
    \E n \in ImportNames, importPath \in ImportPaths :
        Call("validateImportPath", [name |-> n, importPath |-> importPath], validateImportPath(n, importPath))

InitImportPath == InitWith(Catalogs(ImportRecords, MaxImportCatalog))

NextImportPath ==
    \/ Construct
    \/ ImportGenerateImport
    \/ ValidateImportPath
    \/ Return

SpecImportPath == InitImportPath /\ [][NextImportPath]_vars

\* importPath is the module path of the import line generateImport makes
\* for the name
generatedFor(name, importPath) ==
    /\ getComponent(name) # NoComponent
    /\ AgentAPI_generateImport(name) = importLine(IMPORT, catalog[getComponent(name)].name, importPath)

\* C25: the import path generateImport produces for a catalog record is
\* accepted by validateImportPath for that record: valid is true and errors
\* is empty.
C25_GeneratedImportPathIsValid ==
    (op.name = "validateImportPath" /\ generatedFor(op.args.name, op.args.importPath)) =>
        result.valid /\ result.errors = <<>>

(***************************************************************************)
(* Specification SpecInvoice: the InvoiceAnalysis flow.  The user selects  *)
(* files, confirms, resets, retries and cancels; the upload and confirm    *)
(* requests complete; the status and results queries fetch while they are  *)
(* enabled; the backend moves the jobs through their statuses.             *)
(* backendStatus[n] is the status of the n-th job the backend created.     *)
(***************************************************************************)
MaxJobs == 2

JobIds == <<"job-1", "job-2", "job-3", "job-4">>

jobNumber(id) == CHOOSE n \in 1..Len(JobIds) : JobIds[n] = id

\* jobStatusEnum; a job that was uploaded and not yet confirmed is UPLOADED
JobStatus == {"QUEUED", "PROCESSING", "COMPLETED", "FAILED", "RECOVERING"}

\* what the invoice flow does not touch
besideInvoice == <<registryVars, callVars, chatVars>>

\* handleReset
Reset ==
    /\ currentStep' = "upload"
    /\ jobId' = Null
    /\ detection' = Null
    /\ invoiceResults' = Null
    /\ invoiceError' = Null
    /\ statusData' = Null

\* the useEffect on [statusResponse, resultsResponse], run with the values
\* the two queries hold after the step
StatusEffect(response, resultsOfJob) ==
    IF response \notin {Null, "unsuccessful"}
    THEN /\ statusData' = response
         /\ IF response = "COMPLETED" /\ resultsOfJob = "success"
            THEN /\ invoiceResults' = "data"
                 /\ currentStep' = "results"
                 /\ UNCHANGED invoiceError
            ELSE IF response = "FAILED"
            THEN /\ invoiceError' = "Processing failed. Please try again."
                 /\ currentStep' = "error"
                 /\ UNCHANGED invoiceResults
            ELSE UNCHANGED <<invoiceResults, invoiceError, currentStep>>
    ELSE UNCHANGED <<statusData, invoiceResults, invoiceError, currentStep>>

\* refetchInterval of the status query: 3000 for PROCESSING and QUEUED,
\* false otherwise
refetchInterval(data) == IF data = "PROCESSING" \/ data = "QUEUED" THEN 3000 ELSE 0

\* the file input and the upload button are disabled while the upload is pending
HandleFileSelect ==
    /\ currentStep = "upload"
    /\ uploadMutation # "pending"
    /\ Len(backendStatus) < MaxJobs
    /\ uploadMutation' = "pending"
    /\ UNCHANGED <<currentStep, jobId, detection, invoiceResults, invoiceError, statusData,
                   confirmMutation, statusResponse, resultsResponse, backendStatus>>
    /\ UNCHANGED besideInvoice

\* the upload request is answered: the backend has created a job; the two
\* queries observe the keys of the new jobId, which hold no data
UploadSucceeds ==
    /\ uploadMutation = "pending"
    /\ \E success \in BOOLEAN :
          /\ backendStatus' = Append(backendStatus, "UPLOADED")
          /\ uploadMutation' = "success"
          /\ IF success
             THEN /\ jobId' = JobIds[Len(backendStatus) + 1]
                  /\ detection' = "detection"
                  /\ currentStep' = "confirm"
                  /\ statusResponse' = Null
                  /\ resultsResponse' = Null
             ELSE UNCHANGED <<jobId, detection, currentStep, statusResponse, resultsResponse>>
    /\ UNCHANGED <<invoiceResults, invoiceError, statusData, confirmMutation>>
    /\ UNCHANGED besideInvoice

UploadFails ==
    /\ uploadMutation = "pending"
    /\ uploadMutation' = "error"
    /\ invoiceError' = "Upload failed"
    /\ currentStep' = "error"
    /\ UNCHANGED <<jobId, detection, invoiceResults, statusData, confirmMutation, statusResponse,
                   resultsResponse, backendStatus>>
    /\ UNCHANGED besideInvoice

\* the submit button is disabled while the confirmation is pending; the
\* request carries the jobId of the moment
HandleConfirm ==
    /\ currentStep = "confirm"
    /\ confirmMutation.state # "pending"
    /\ jobId # Null
    /\ confirmMutation' = [state |-> "pending", jobId |-> jobId]
    /\ UNCHANGED <<currentStep, jobId, detection, invoiceResults, invoiceError, statusData,
                   uploadMutation, statusResponse, resultsResponse, backendStatus>>
    /\ UNCHANGED besideInvoice

\* the confirm request is answered: the backend has queued the job
ConfirmSucceeds ==
    /\ confirmMutation.state = "pending"
    /\ \E success \in BOOLEAN :
          /\ confirmMutation' = [confirmMutation EXCEPT !.state = "success"]
          /\ IF success
             THEN /\ currentStep' = "processing"
                  /\ backendStatus' = [backendStatus EXCEPT ![jobNumber(confirmMutation.jobId)] = "QUEUED"]
             ELSE UNCHANGED <<currentStep, backendStatus>>
    /\ UNCHANGED <<jobId, detection, invoiceResults, invoiceError, statusData, uploadMutation,
                   statusResponse, resultsResponse>>
    /\ UNCHANGED besideInvoice

ConfirmFails ==
    /\ confirmMutation.state = "pending"
    /\ confirmMutation' = [confirmMutation EXCEPT !.state = "error"]
    /\ invoiceError' = "Confirmation failed"
    /\ UNCHANGED <<currentStep, jobId, detection, invoiceResults, statusData, uploadMutation,
                   statusResponse, resultsResponse, backendStatus>>
    /\ UNCHANGED besideInvoice

\* closing the confirmation dialog, 'Cancel and Start Over' in every step
\* but upload and results, 'Start Over' in the error step, and the way back
\* from the results; with jobId null the queries observe keys without data
HandleReset ==
    /\ currentStep # "upload"
    /\ currentStep = "results" => invoiceResults # Null
    /\ Reset
    /\ statusResponse' = Null
    /\ resultsResponse' = Null
    /\ UNCHANGED <<uploadMutation, confirmMutation, backendStatus>>
    /\ UNCHANGED besideInvoice

\* 'Try Again' in the error step
HandleRetry ==
    /\ currentStep = "error"
    /\ invoiceError' = Null
    /\ currentStep' = "upload"
    /\ UNCHANGED <<jobId, detection, invoiceResults, statusData, uploadMutation, confirmMutation,
                   statusResponse, resultsResponse, backendStatus>>
    /\ UNCHANGED besideInvoice

\* 'Cancel' of the processing status card, shown for QUEUED and PROCESSING:
\* when the cancel request succeeds the flow is reset
HandleCancel ==
    /\ currentStep = "processing"
    /\ statusData \in {"QUEUED", "PROCESSING"}
    /\ jobId # Null
    /\ \E cancelled \in BOOLEAN :
          IF cancelled
          THEN /\ Reset
               /\ statusResponse' = Null
               /\ resultsResponse' = Null
               /\ backendStatus' = [backendStatus EXCEPT ![jobNumber(jobId)] = "CANCELLED"]
          ELSE UNCHANGED <<currentStep, jobId, detection, invoiceResults, invoiceError, statusData,
                           statusResponse, resultsResponse, backendStatus>>
    /\ UNCHANGED <<uploadMutation, confirmMutation>>
    /\ UNCHANGED besideInvoice

\* the status query fetches: once when it is enabled without data, and
\* again whenever its refetch interval elapses; the effect runs when the
\* response differs from the one held
FetchStatus ==
    /\ currentStep = "processing" /\ jobId # Null
    /\ statusResponse = Null \/ refetchInterval(statusResponse) > 0
    /\ LET response == backendStatus[jobNumber(jobId)]
       IN /\ statusResponse' = response
          /\ IF response # statusResponse
             THEN StatusEffect(response, resultsResponse)
             ELSE UNCHANGED <<statusData, invoiceResults, invoiceError, currentStep>>
    /\ UNCHANGED <<jobId, detection, uploadMutation, confirmMutation, resultsResponse, backendStatus>>
    /\ UNCHANGED besideInvoice

\* the results query fetches once it is enabled and holds no data
FetchResults ==
    /\ statusData = "COMPLETED" /\ jobId # Null
    /\ resultsResponse = Null
    /\ \E response \in {"success", "failed"} :
          /\ resultsResponse' = response
          /\ StatusEffect(statusResponse, response)
    /\ UNCHANGED <<jobId, detection, uploadMutation, confirmMutation, statusResponse, backendStatus>>
    /\ UNCHANGED besideInvoice

\* the backend starts a queued job, or a job being processed starts or ends
\* a recovery
BackendAdvance ==
    /\ \E n \in 1..Len(backendStatus), next \in {"PROCESSING", "RECOVERING"} :
          /\ \/ backendStatus[n] = "QUEUED" /\ next = "PROCESSING"
             \/ backendStatus[n] = "PROCESSING" /\ next = "RECOVERING"
             \/ backendStatus[n] = "RECOVERING" /\ next = "PROCESSING"
          /\ backendStatus' = [backendStatus EXCEPT ![n] = next]
    /\ UNCHANGED <<currentStep, jobId, detection, invoiceResults, invoiceError, statusData,
                   uploadMutation, confirmMutation, statusResponse, resultsResponse>>
    /\ UNCHANGED besideInvoice

\* the backend ends a job
BackendFinish ==
    /\ \E n \in 1..Len(backendStatus), final \in {"COMPLETED", "FAILED"} :
          /\ backendStatus[n] \in {"PROCESSING", "RECOVERING"}
          /\ backendStatus' = [backendStatus EXCEPT ![n] = final]
    /\ UNCHANGED <<currentStep, jobId, detection, invoiceResults, invoiceError, statusData,
                   uploadMutation, confirmMutation, statusResponse, resultsResponse>>
    /\ UNCHANGED besideInvoice

InitInvoice == InitWith({<<>>})

NextInvoice ==
    \/ HandleFileSelect
    \/ UploadSucceeds
    \/ UploadFails
    \/ HandleConfirm
    \/ ConfirmSucceeds
    \/ ConfirmFails
    \/ HandleReset
    \/ HandleRetry
    \/ HandleCancel
    \/ FetchStatus
    \/ FetchResults
    \/ BackendAdvance
    \/ BackendFinish

SpecInvoice == InitInvoice /\ [][NextInvoice]_vars

\* the polling timer fires, the queries are answered and the backend ends
\* every job it processes; nothing is assumed of the user
SpecInvoiceLive ==
    /\ SpecInvoice
    /\ WF_vars(FetchStatus)
    /\ WF_vars(FetchResults)
    /\ WF_vars(BackendAdvance)
    /\ WF_vars(BackendFinish)

\* C26: a flow in the processing step of a job the backend has queued leaves
\* the processing step:
\* the client polls while the job is QUEUED, PROCESSING or RECOVERING, so
\* that it sees the COMPLETED or FAILED the backend ends with and moves to
\* the results (when the results fetch succeeds) or to the error step.
C26_ProcessingEventuallyEnds ==
    (currentStep = "processing" /\ jobId # Null /\ backendStatus[jobNumber(jobId)] \in JobStatus)
        ~> (currentStep # "processing" \/ resultsResponse = "failed")

\* C27: in the confirm and processing steps a job id is set, and in the
\* results step the results are set.
C27_StepsHaveTheirData ==
    /\ currentStep \in {"confirm", "processing"} => jobId # Null
    /\ currentStep = "results" => invoiceResults # Null


(***************************************************************************)
(* Specification SpecChat: the chat page.  The user sends messages and     *)
(* presses stop through ChatInput while the requests started by            *)
(* sendMessage answer, deliver chunks and end in any order.                *)
(***************************************************************************)

MaxSends == 2
MaxChunks == 2

besideChat == <<registryVars, callVars, invoiceVars>>

\* the message with identifier id
messageOf(id) == CHOOSE m \in {messages[k] : k \in DOMAIN messages} : m.id = id

ChatInputs == {<<" ", "h", "i", " ">>, <<" ">>}

\* the data: lines a response can carry besides [DONE]
StreamChunks ==
    {[type |-> "content", content |-> <<"a">>, error |-> Undefined],
     [type |-> "content", content |-> <<>>, error |-> Undefined],
     [type |-> "error", content |-> <<>>, error |-> "overloaded"],
     [type |-> "error", content |-> <<>>, error |-> Undefined]}

\* ChatInput.handleSend: nothing while streaming or for a blank input
HandleSend ==
    /\ Len(streams) < MaxSends
    /\ ~isStreaming
    /\ \E input \in ChatInputs :
          IF trim(input) = <<>> THEN UNCHANGED chatVars ELSE sendMessage(trim(input))
    /\ UNCHANGED besideChat

\* the stop button, rendered in place of the send button while streaming
StopStreaming ==
    /\ isStreaming
    /\ stopStreaming
    /\ UNCHANGED besideChat

\* fetch resolves with an ok response that has a body
Responds(i) ==
    /\ i \in DOMAIN streams
    /\ streams[i].phase = "fetching"
    /\ streams' = [streams EXCEPT ![i].phase = "reading"]
    /\ UNCHANGED <<messages, isStreaming, currentStreamingMessageId, abortControllerRef>>
    /\ UNCHANGED besideChat

\* fetch rejects, or the response is not ok, or it has no body: sendMessageStream throws
Rejects(i) ==
    /\ i \in DOMAIN streams
    /\ streams[i].phase = "fetching"
    /\ streams' = [streams EXCEPT ![i].phase = "thrown"]
    /\ catchError(streams[i].assistant, "HTTP error! status: 500")
    /\ UNCHANGED abortControllerRef
    /\ UNCHANGED besideChat

\* reader.read() delivers a data: line that parses to a chunk; the loop
\* goes on.  A response carries at most MaxChunks characters of content.
Chunk(i) ==
    /\ i \in DOMAIN streams
    /\ streams[i].phase = "reading"
    /\ \E chunk \in StreamChunks :
          /\ Len(messageOf(streams[i].assistant).content) + Len(chunk.content) <= MaxChunks
          /\ onChunk(streams[i].assistant, chunk)
    /\ UNCHANGED streams
    /\ UNCHANGED abortControllerRef
    /\ UNCHANGED besideChat

\* reader.read() delivers data: [DONE]: onChunk({type: 'end'}) and return
Done(i) ==
    /\ i \in DOMAIN streams
    /\ streams[i].phase = "reading"
    /\ streams' = [streams EXCEPT ![i].phase = "returned"]
    /\ onChunk(streams[i].assistant, [type |-> "end", content |-> <<>>, error |-> Undefined])
    /\ UNCHANGED abortControllerRef
    /\ UNCHANGED besideChat

\* reader.read() answers done: the loop breaks and the promise resolves;
\* sendMessage has no statement after the await
Closes(i) ==
    /\ i \in DOMAIN streams
    /\ streams[i].phase = "reading"
    /\ streams' = [streams EXCEPT ![i].phase = "resolved"]
    /\ UNCHANGED <<messages, isStreaming, currentStreamingMessageId, abortControllerRef>>
    /\ UNCHANGED besideChat

\* reader.read() rejects: the error leaves sendMessageStream through finally
Breaks(i) ==
    /\ i \in DOMAIN streams
    /\ streams[i].phase = "reading"
    /\ streams' = [streams EXCEPT ![i].phase = "thrown"]
    /\ catchError(streams[i].assistant, "network error")
    /\ UNCHANGED abortControllerRef
    /\ UNCHANGED besideChat

FetchResponds == \E i \in DOMAIN streams : Responds(i)
FetchRejects == \E i \in DOMAIN streams : Rejects(i)
ReadChunk == \E i \in DOMAIN streams : Chunk(i)
ReadDone == \E i \in DOMAIN streams : Done(i)
ReadCloses == \E i \in DOMAIN streams : Closes(i)
ReadBreaks == \E i \in DOMAIN streams : Breaks(i)

InitChat == InitWith({<<>>})

NextChat ==
    \/ HandleSend
    \/ StopStreaming
    \/ FetchResponds
    \/ FetchRejects
    \/ ReadChunk
    \/ ReadDone
    \/ ReadCloses
    \/ ReadBreaks

SpecChat == InitChat /\ [][NextChat]_vars

\* every request is answered or fails, and every response body ends: by
\* [DONE], by closing, or by a failed read
SpecChatLive ==
    /\ SpecChat
    /\ \A i \in 1..MaxSends :
          /\ WF_vars(Responds(i) \/ Rejects(i))
          /\ WF_vars(Done(i) \/ Closes(i) \/ Breaks(i))

sent(i) == i \in DOMAIN streams

settled(i) ==
    /\ i \in DOMAIN streams
    /\ ~isStreaming
    /\ messageOf(streams[i].assistant).status \in {"sent", "error"}

\* C28: after sendMessage with non-blank content the hook eventually is at
\* isStreaming = false with the assistant placeholder of that send in
\* status 'sent' or 'error', whichever way the stream ends
C28_SendEventuallySettles ==
    \A i \in 1..MaxSends : sent(i) ~> settled(i)

noneStreaming == \A k \in DOMAIN messages : messages[k].status # "streaming"

stoppedContentKept ==
    \A i \in DOMAIN streams :
        streams[i].stopped =>
            \A k \in DOMAIN messages :
                messages[k].id = streams[i].assistant =>
                    messages'[k].content = messages[k].content

\* C29: whenever isStreaming is false no message has status 'streaming',
\* and once stopStreaming has run for a placeholder no later chunk changes
\* that placeholder's content
C29_StoppedMessageStaysStopped ==
    /\ [](~isStreaming => noneStreaming)
    /\ [][stoppedContentKept]_vars

====
